---- MODULE Spec2Model ----
(***************************************************************************)
(* mod_audio_stream: one streaming session (tech_pvt), its AudioPipe and   *)
(* the libwebsockets service thread that drives it.                        *)
(*                                                                         *)
(* Every handler of the source is one atomic action.  A handler that calls *)
(* other functions of the module is written as the composition of state    *)
(* transformers: an operator F(w, ...) takes the whole program state w (a  *)
(* record with the fields ap, lws, pvt, sched, obs) and returns the        *)
(* state after the call, so that nested calls (eventCallback ->            *)
(* stream_session_cleanup -> bug CLOSE callback -> ...) read as in the     *)
(* source.                                                                 *)
(***************************************************************************)
EXTENDS Integers, Sequences, FiniteSets, TLC

(***************************************************************************)
(* Program constants.                                                      *)
(***************************************************************************)
MAX_CONNECTION_ATTEMPTS == 3

RECONNECTION_DELAY_SECONDS == 1

GRACEFUL_BUDGET_SECONDS == 60

HEARTBEAT_INTERVAL_SECONDS == 60

(***************************************************************************)
(* Bounds of the model.                                                    *)
(***************************************************************************)
MaxSockets == 2

MaxReconnects == 5

MaxFlaps == 1

MaxRefusals == 1

MaxCount == 2

MaxFrames == 2

MaxFramesBoth == 1

BufCap == 10

MaxFill == BufCap + 2

MaxInbound == 3

MaxPlay == 3

MaxGraceful == 1

MaxMix == 5

MaxIngress == 3

MaxStarts == 2
\* chunks a ring buffer holds when its size in bytes matters
SizeChunks == 3
\* frames captured into it
MaxSizeFrames == 4
\* samples mixed after the first one
MaxSamples == 1
\* time stamps of the messages given to an adaptive buffer
MaxStamp == 3
\* messages that fill an adaptive buffer to config.max_size_bytes
MaxQueued == 3
\* messages an adaptive buffer is let hold, those past its capacity included
MaxHeap == 4
\* calls made on an adaptive buffer
MaxQueueOps == 6

FrameLen == 2

(***************************************************************************)
(* Start parameters of the session (uuid_audio_stream ... start).          *)
(***************************************************************************)
WsiIds == 1..MaxSockets

BugIds == {"in", "out"}

BufIds == {"ib", "ob"}

\* the host events the observer counts; the others ("stream_stopped",
\* "stream_heartbeat") are only noted as having been published
HostEvents ==
    { "connection_established", "connection_failed", "connection_timeout",
      "connection_degraded", "connection_closed", "media_play_complete",
      "media_cleared", "stream_invalid_input" }

TERMINATION_REASON_API_REQUEST == "API Request"

TERMINATION_REASON_STREAM_TIMEOUT == "Stream Timeout"

TERMINATION_REASON_CONNECTION_ERROR == "Connection error"

TERMINATION_REASON_CALL_TERMINATED == "VoipBit::GracefulShutdown::CallTerminated"

VARIABLES
    ap,     \* the AudioPipe object: its members and its two ring buffers
    lws,    \* the service thread's side: sockets, timers, the four pending lists
    pvt,    \* tech_pvt, the media bugs and the channel private of the call
    sched,  \* the host scheduler's two tasks of the session
    obs,    \* what an observer records: wire trace, host events, attempts
    env,    \* what the surroundings will still do: reconnects let through,
            \* frames the call delivers, graceful-shutdown commands
    chan,   \* the channel of the call as the start commands see it: the
            \* private kept under the stream-id, the media bugs, the sessions
            \* initialised, and how far each start command has come
    unit    \* a component exercised on its own, outside a running session:
            \* the sizing of a ring buffer, the mixer, the adaptive buffer

vars == <<ap, lws, pvt, sched, obs, env, chan, unit>>

engine == <<ap, lws, pvt, sched, obs, env>>

\* Time is kept relative: a timer is the number of seconds left until it is
\* due, a time stamp is the number of seconds since it was taken.
World ==
    [ap |-> ap, lws |-> lws, pvt |-> pvt, sched |-> sched, obs |-> obs, env |-> env]

Commit(w) ==
    /\ ap' = w.ap
    /\ lws' = w.lws
    /\ pvt' = w.pvt
    /\ sched' = w.sched
    /\ obs' = w.obs
    /\ env' = w.env
    /\ UNCHANGED <<chan, unit>>

(***************************************************************************)
(* Buffer (stream_utils.hpp) in chunk units.                               *)
(***************************************************************************)
NewBuffer == [inuse |-> 0, generated |-> 0, transmitted |-> 0, notif |-> 1]

NoBuffer == [inuse |-> 0, generated |-> 0, transmitted |-> 0, notif |-> 0]

NewAudioPipe(cfg) ==
    [ alive |-> TRUE,
      m_state |-> "IDLE",
      m_wsi |-> 0,
      m_vhd |-> FALSE,
      m_connection_attempts |-> 0,
      m_stream_started |-> FALSE,
      m_firstMsgSent |-> FALSE,
      m_lastMsgSent |-> FALSE,
      m_gracefulShutdown |-> FALSE,
      m_gracefulShutdown_ago |-> 0,
      m_sequenceNumber |-> 0,
      m_switch |-> TRUE,
      m_bothTracks |-> (cfg.track = "both"),
      m_track |-> cfg.track,
      m_is_bidirectional |-> cfg.bidi,
      m_events |-> << >>,
      m_audio_buffer |-> NewBuffer,
      m_ob_audio_buffer |-> IF cfg.track = "both" THEN NewBuffer ELSE NoBuffer ]

\* a deleted AudioPipe: nothing of it may be read any more
DeadPipe(a) ==
    [ alive |-> FALSE,
      m_state |-> "DISCONNECTED",
      m_wsi |-> 0,
      m_vhd |-> FALSE,
      m_connection_attempts |-> 0,
      m_stream_started |-> FALSE,
      m_firstMsgSent |-> FALSE,
      m_lastMsgSent |-> FALSE,
      m_gracefulShutdown |-> FALSE,
      m_gracefulShutdown_ago |-> 0,
      m_sequenceNumber |-> 0,
      m_switch |-> TRUE,
      m_bothTracks |-> a.m_bothTracks,
      m_track |-> a.m_track,
      m_is_bidirectional |-> a.m_is_bidirectional,
      m_events |-> << >>,
      m_audio_buffer |-> NoBuffer,
      m_ob_audio_buffer |-> NoBuffer ]

NewTechPvt(cfg) ==
    [ alive |-> TRUE,
      callUp |-> TRUE,
      bugs |-> IF cfg.track = "both" THEN {"in", "out"}
               ELSE IF cfg.track = "inbound" THEN {"in"} ELSE {"out"},
      bugPriv |-> IF cfg.track = "inbound" THEN "in" ELSE "out",
      bugArgs |-> [b \in BugIds |->
                     IF cfg.track = "both" THEN TRUE
                     ELSE IF cfg.track = "inbound" THEN b = "in" ELSE b = "out"],
      audio_pipe_ptr |-> TRUE,
      track |-> cfg.track,
      is_bidirectional |-> cfg.bidi,
      stream_end_timeout |-> cfg.timeout,
      is_started |-> 0,
      start_time |-> 0,
      task_id |-> 0,
      stream_timeout_task_id |-> 0,
      audio_paused |-> FALSE,
      graceful_shutdown |-> FALSE,
      channel_closing |-> FALSE,
      stream_termination_reason |-> "",
      write_buffer |-> IF cfg.bidi THEN 0 ELSE -1,
      stream_input_received |-> 0,
      stream_input_played |-> 0,
      checkpoints |-> << >>,
      invalid_stream_input_notified |-> 0 ]

NewLws ==
    [ wsi |-> [i \in WsiIds |-> [st |-> "free", user |-> FALSE, writable |-> FALSE, pollout |-> TRUE]],
      sul |-> {},
      cancelled |-> TRUE,
      pendingConnects |-> TRUE,
      pendingReconnects |-> FALSE,
      pendingDisconnects |-> FALSE,
      pendingWrites |-> FALSE ]

NewSched ==
    [ hb |-> [rt |-> -1],
      to |-> [rt |-> -1] ]

NewObs ==
    [ wire |-> << >>,
      hostEvents |-> [e \in HostEvents |-> 0],
      eventAfterCleanup |-> FALSE,
      attemptsInARow |-> 0,
      sinceAttempt |-> RECONNECTION_DELAY_SECONDS,
      spaced |-> TRUE,
      establishedCount |-> 0,
      timersStarted |-> 0,
      reconnectsInARow |-> 0,
      cleanupEntered |-> FALSE,
      cleanupDone |-> FALSE,
      cleanupReason |-> "",
      gracefulFirstAgo |-> -1,
      timeoutTaskFired |-> FALSE,
      checkpointsSeen |-> 0,
      played |-> << >>,
      playedShort |-> 0,
      dropped |-> {},
      degradedAt |-> << >>,
      invalidSeen |-> 0,
      incorrectQueued |-> 0,
      stored |-> {},
      refused |-> {},
      degradedUnwritten |-> FALSE, usedAfterDestroy |-> FALSE,
      closedByDeadline |-> FALSE,
      pause |-> "never",
      atPause |-> <<NoBuffer, NoBuffer>>,
      benign |-> FALSE,
      crashed |-> FALSE ]

(***************************************************************************)
(* Small decisions of the code, each one its own operator.                 *)
(***************************************************************************)
\* variants of the decisions below, used to see that the properties of this
\* module tell them apart
CanRetryOnceMore(attempts) == attempts <= MAX_CONNECTION_ATTEMPTS + 1

StopDueWithAudioLeft(empty, lastMsgSent) == ~lastMsgSent

StartDueAlways(firstMsgSent) == TRUE

DelHeartbeatOnly(w) ==
    [w EXCEPT !.sched.hb.rt = IF w.pvt.task_id # 0 THEN -1 ELSE @]

NotifyConnectSuccessAlways(stream_started) == TRUE

CheckpointDueAlways(played, len, position) == TRUE

\* audio_pipe.cpp: "if (ap->m_connection_attempts <= MAX_CONNECTION_ATTEMPTS)"
CanRetry(attempts) == attempts <= MAX_CONNECTION_ATTEMPTS

\* audio_pipe.cpp: "if (cur_time >= ap->m_gracefulShutdown_at + 60)", with
\* ago = cur_time - m_gracefulShutdown_at
GracefulDeadlinePassed(ago) == ago >= GRACEFUL_BUDGET_SECONDS

\* audio_pipe.cpp: "if (ap->allBuffersAreEmpty() && !ap->m_lastMsgSent)"
StopDue(empty, lastMsgSent) == empty /\ ~lastMsgSent

\* audio_pipe.cpp: "if (!ap->m_firstMsgSent)"
StartDue(firstMsgSent) == ~firstMsgSent

\* audio_pipe.cpp: "if (!ap->m_stream_started)"
NotifyConnectSuccess(stream_started) == ~stream_started

\* lws_glue.cpp: "if (stream_input_played + len - 1 < checkpoints->position)
\* break;" with played already counting the frame just mixed in
CheckpointDue(played, len, position) == ~(played + len - 1 < position)

\* Buffer::is_data_available
is_data_available(b) == b.inuse > 0

allBuffersAreEmpty(a) ==
    ~is_data_available(a.m_audio_buffer) /\ ~is_data_available(a.m_ob_audio_buffer)

\* a wire message: arg is the track of a media message, the name of a
\* playedStream
Msg(ev, sn, arg) == [ev |-> ev, sn |-> sn, arg |-> arg]

Seqd(ev, sn) == Msg(ev, sn, "")

DummyMsg == Seqd("", 0)

(***************************************************************************)
(* Host side helpers.                                                      *)
(***************************************************************************)
Crash(w) == [w EXCEPT !.obs.crashed = TRUE]

\* tech_pvt->response_handler / switch_event_fire: one host event published
FireHostEvent(w, e) ==
    [w EXCEPT !.obs.hostEvents =
                  IF e \in HostEvents /\ @[e] < MaxCount
                  THEN [@ EXCEPT ![e] = @ + 1] ELSE @,
              !.obs.eventAfterCleanup = @ \/ w.obs.cleanupDone]

\* switch_scheduler_del_task_id for both tasks of the session
DelTasks(w) ==
    [w EXCEPT !.sched.hb.rt = IF w.pvt.task_id # 0 THEN -1 ELSE @,
              !.sched.to.rt = IF w.pvt.stream_timeout_task_id # 0 THEN -1 ELSE @]

(***************************************************************************)
(* AudioPipe methods called from the host threads.                         *)
(***************************************************************************)
lws_callback_on_writable(w, id) ==
    IF id # 0 /\ w.lws.wsi[id].st = "open"
    THEN [w EXCEPT !.lws.wsi[id].writable = TRUE]
    ELSE w

\* ap->m_vhd is dereferenced: a pipe that never reached connect_client has none
addPendingWrite(w) ==
    IF ~w.ap.m_vhd THEN Crash(w)
    ELSE [w EXCEPT !.lws.pendingWrites = TRUE, !.lws.cancelled = TRUE]

addPendingDisconnect(w) ==
    IF ~w.ap.m_vhd THEN Crash(w)
    ELSE [w EXCEPT !.ap.m_state = "DISCONNECTING",
                   !.lws.pendingDisconnects = TRUE,
                   !.lws.cancelled = TRUE]

addEventBuffer(w, msg) ==
    IF w.ap.m_state # "CONNECTED" THEN w
    ELSE addPendingWrite([w EXCEPT !.ap.m_events = Append(@, msg)])

\* a variant of close that asks for the drain and the stop message
closeWithStop(w) ==
    addPendingWrite([w EXCEPT !.ap.m_gracefulShutdown = TRUE,
                              !.ap.m_gracefulShutdown_ago = 0])

close(w) ==
    IF w.ap.m_state # "CONNECTED" THEN w ELSE addPendingDisconnect(w)

graceful_shutdown(w) ==
    addPendingWrite([w EXCEPT !.ap.m_gracefulShutdown = TRUE,
                              !.ap.m_gracefulShutdown_ago = 0])

increaseSequenceNumber(w) == [w EXCEPT !.ap.m_sequenceNumber = @ + 1]

(***************************************************************************)
(* lws_glue.cpp                                                            *)
(***************************************************************************)
\* the three lookups every entry point starts with: session, channel private
\* (the bug) and bug_args->private_data_ptr
LocateTechPvt(w) ==
    /\ w.pvt.callUp
    /\ w.pvt.bugPriv # "none"
    /\ w.pvt.bugArgs[w.pvt.bugPriv]

\* audio_pipe_ptr may dangle (the pipe was deleted by the service thread):
\* writing through it either faults or goes unnoticed, as w.obs.benign says
stream_ws_close_connection(w) ==
    IF w.pvt.audio_pipe_ptr
    THEN IF ~w.ap.alive
         THEN (IF w.obs.benign THEN [w EXCEPT !.pvt.channel_closing = TRUE] ELSE Crash(w))
         ELSE close([w EXCEPT !.pvt.channel_closing = TRUE,
                              !.ap.m_connection_attempts = MAX_CONNECTION_ATTEMPTS + 1])
    ELSE w

destroy_tech_pvt(w) ==
    [w EXCEPT !.pvt.alive = FALSE,
              !.pvt.write_buffer = -1,
              !.pvt.checkpoints = << >>]

RECURSIVE stream_session_cleanup(_, _, _)
RECURSIVE BugClose(_, _)

\* SWITCH_ABC_TYPE_CLOSE of voipbit_intelligent_media_processor for bug b
BugClose(w, b) ==
    IF ~w.pvt.bugArgs[b] THEN w
    ELSE LET w0 == [w EXCEPT !.obs.usedAfterDestroy = @ \/ ~w.pvt.alive]
             w1 == stream_ws_close_connection(w0)
             w2 == [w1 EXCEPT !.pvt.stream_termination_reason =
                                   TERMINATION_REASON_CALL_TERMINATED]
             w3 == FireHostEvent(w2, "stream_stopped")
         IN  stream_session_cleanup(w3, TRUE, FALSE)

stream_session_cleanup(w, channelIsClosing, zeroBillingArg) ==
    IF w.pvt.bugPriv = "none" \/ ~w.pvt.bugArgs[w.pvt.bugPriv] THEN w
    ELSE LET bug == w.pvt.bugPriv
             zeroBilling == zeroBillingArg \/ w.pvt.start_time = 0
             w1 == [w EXCEPT !.obs.cleanupEntered = TRUE,
                             !.obs.cleanupReason = w.pvt.stream_termination_reason]
             w2 == DelTasks(w1)
             w3 == [w2 EXCEPT !.pvt.start_time = IF zeroBilling THEN 1 ELSE @,
                              !.pvt.bugPriv = "none"]
             w4 == IF channelIsClosing THEN w3
                   ELSE BugClose([w3 EXCEPT !.pvt.bugs = @ \ {bug}], bug)
             w5 == destroy_tech_pvt(w4)
         IN  [w5 EXCEPT !.pvt.bugArgs[bug] = FALSE,
                        !.obs.cleanupDone = TRUE]

stream_session_graceful_shutdown(w) ==
    IF w.pvt.bugPriv = "none" \/ ~w.pvt.bugArgs[w.pvt.bugPriv] THEN w
    ELSE LET w1 == [w EXCEPT !.pvt.graceful_shutdown = TRUE,
                             !.obs.gracefulFirstAgo = IF @ < 0 THEN 0 ELSE @]
         IN  IF w1.pvt.audio_pipe_ptr THEN graceful_shutdown(w1) ELSE w1

do_graceful_shutdown(w, text) ==
    IF w.pvt.bugPriv = "none" THEN w
    ELSE LET w1 == FireHostEvent(w, "stream_stopped")
             w2 == [w1 EXCEPT !.pvt.stream_termination_reason =
                                 IF text THEN TERMINATION_REASON_STREAM_TIMEOUT
                                 ELSE TERMINATION_REASON_API_REQUEST]
         IN  stream_session_graceful_shutdown(w2)

do_stop(w) ==
    IF w.pvt.bugPriv = "none" THEN w
    ELSE LET w1 == FireHostEvent(w, "stream_stopped")
             w2 == [w1 EXCEPT !.pvt.stream_termination_reason =
                                 TERMINATION_REASON_API_REQUEST]
         IN  stream_session_cleanup(w2, FALSE, FALSE)

\* a control message that carries the sequence number read before it is
\* queued: addEventBuffer, then increaseSequenceNumber
SendSequenced(w, ev, arg) ==
    increaseSequenceNumber(addEventBuffer(w, Msg(ev, w.ap.m_sequenceNumber, arg)))

\* a variant of sendIncorrectPayloadEvent without the latch
sendIncorrectPayloadEventUnlatched(w) ==
    IF ~w.pvt.audio_pipe_ptr \/ ~w.ap.alive THEN Crash(w)
    ELSE LET w1 == [w EXCEPT !.pvt.invalid_stream_input_notified = 1]
             msg == Seqd("incorrectPayload", w1.ap.m_sequenceNumber)
             w2 == [w1 EXCEPT !.obs.incorrectQueued =
                                  IF w1.ap.m_state = "CONNECTED" /\ @ < MaxCount
                                  THEN @ + 1 ELSE @]
             w3 == addEventBuffer(increaseSequenceNumber(w2), msg)
         IN  FireHostEvent(w3, "stream_invalid_input")

\* sendIncorrectPayloadEvent: once per session, an incorrectPayload message
\* with the current sequence number and the host event; the observer counts
\* the messages that addEventBuffer takes
sendIncorrectPayloadEvent(w) ==
    IF w.pvt.invalid_stream_input_notified # 0 THEN w
    ELSE IF ~w.pvt.audio_pipe_ptr \/ ~w.ap.alive THEN Crash(w)
    ELSE LET w1 == [w EXCEPT !.pvt.invalid_stream_input_notified = 1]
             msg == Seqd("incorrectPayload", w1.ap.m_sequenceNumber)
             w2 == [w1 EXCEPT !.obs.incorrectQueued =
                                  IF w1.ap.m_state = "CONNECTED" /\ @ < MaxCount
                                  THEN @ + 1 ELSE @]
             w3 == addEventBuffer(increaseSequenceNumber(w2), msg)
         IN  FireHostEvent(w3, "stream_invalid_input")

\* storePayload of a media.play with n bytes of audio at the call rate
storePayload(w, n) ==
    [w EXCEPT !.pvt.write_buffer = @ + n,
              !.pvt.stream_input_received = @ + n]

\* a field of a message that is not there
Absent == "absent"

\* a variant of CoerceRate that keeps the rate as it was received
CoerceRateNever(r) == r

\* "if (rcvd_samplerate != 8000 && rcvd_samplerate != 16000) rcvd_samplerate = 8000"
CoerceRate(r) == IF r # 8000 /\ r # 16000 THEN 8000 ELSE r

\* processPlayAudioEvent; the observer notes content type and sample rate,
\* as received, of the plays that were stored and of those refused for them
processPlayAudioEvent(w, m) ==
    IF ~m.media THEN sendIncorrectPayloadEvent(w)
    ELSE IF ~m.payload THEN sendIncorrectPayloadEvent(w)
    ELSE IF m.contentType = Absent THEN sendIncorrectPayloadEvent(w)
    ELSE IF m.sampleRate = -1 THEN sendIncorrectPayloadEvent(w)
    ELSE LET rcvd_samplerate == CoerceRate(m.sampleRate)
             as == [contentType |-> m.contentType, sampleRate |-> m.sampleRate]
             refuse == sendIncorrectPayloadEvent([w EXCEPT !.obs.refused = @ \cup {as}])
             store == storePayload([w EXCEPT !.obs.stored = @ \cup {as}], m.bytes)
         IN  CASE m.contentType = "audio/x-l16" -> store
               [] m.contentType = "audio/x-mulaw" ->
                      IF rcvd_samplerate # 8000 THEN refuse ELSE store
               [] m.contentType \in {"raw", "wav"} -> store
               [] OTHER -> refuse

\* a variant of processCheckpointEvent that puts the checkpoint at the head
processCheckpointEventAtHead(w) ==
    LET w1 == [w EXCEPT !.obs.checkpointsSeen = @ + 1]
    IN  IF w.pvt.stream_input_received = 0 THEN w1
        ELSE [w1 EXCEPT !.pvt.checkpoints =
                 <<[name |-> ToString(w1.obs.checkpointsSeen),
                    position |-> w.pvt.stream_input_received]>> \o @]

\* processCheckpointEvent: the observer names the checkpoints 1, 2, ... in
\* the order they arrive
processCheckpointEvent(w) ==
    LET w1 == [w EXCEPT !.obs.checkpointsSeen = @ + 1]
    IN  IF w.pvt.stream_input_received = 0 THEN w1
        ELSE [w1 EXCEPT !.pvt.checkpoints =
                 Append(@, [name |-> ToString(w1.obs.checkpointsSeen),
                            position |-> w.pvt.stream_input_received])]

\* a variant of processClearEvent that leaves the checkpoints in place
processClearEventKeepCheckpoints(w) ==
    LET w1 == [w EXCEPT !.pvt.write_buffer = 0,
                        !.obs.dropped = @ \cup {w.pvt.checkpoints[i].name :
                                                   i \in DOMAIN w.pvt.checkpoints},
                        !.pvt.stream_input_played = 0,
                        !.pvt.stream_input_received = 0]
    IN  FireHostEvent(SendSequenced(w1, "media.cleared", ""), "media_cleared")

processClearEvent(w) ==
    LET w1 == [w EXCEPT !.pvt.write_buffer = 0,
                        !.pvt.checkpoints = << >>,
                        !.obs.dropped = @ \cup {w.pvt.checkpoints[i].name :
                                                   i \in DOMAIN w.pvt.checkpoints},
                        !.pvt.stream_input_played = 0,
                        !.pvt.stream_input_received = 0]
    IN  FireHostEvent(SendSequenced(w1, "media.cleared", ""), "media_cleared")

processIncomingMessage(w, m) ==
    IF ~m.json THEN sendIncorrectPayloadEvent(w)
    ELSE IF m.event = Absent THEN sendIncorrectPayloadEvent(w)
    ELSE CASE m.event = "media.play" -> processPlayAudioEvent(w, m)
           [] m.event = "media.checkpoint" -> processCheckpointEvent(w)
           [] m.event = "media.clear" -> processClearEvent(w)
           [] m.event = "transcription.send" -> FireHostEvent(w, "transcription_received")
           [] OTHER -> sendIncorrectPayloadEvent(w)

\* stream_ws_send_played_event
stream_ws_send_played_event(w, name) ==
    IF ~w.pvt.audio_pipe_ptr THEN w
    ELSE IF ~w.ap.alive THEN (IF w.obs.benign THEN w ELSE Crash(w))
    ELSE SendSequenced(w, "playedStream", name)

RECURSIVE FirePlayed(_, _)

\* the observer's record of one played event: the name of the checkpoint
\* and the largest number of bytes before a checkpoint that were not yet
\* played when its event fired
NotePlayed(w, c) ==
    [w EXCEPT !.obs.played = Append(@, c.name),
              !.obs.playedShort =
                  IF c.position - w.pvt.stream_input_played > @
                  THEN c.position - w.pvt.stream_input_played ELSE @]

\* the loop over the checkpoints in SWITCH_ABC_TYPE_WRITE_REPLACE
FirePlayed(w, len) ==
    IF w.pvt.checkpoints = << >> \/ w.obs.crashed THEN w
    ELSE IF ~CheckpointDue(w.pvt.stream_input_played, len,
                           Head(w.pvt.checkpoints).position) THEN w
    ELSE LET w1 == stream_ws_send_played_event(w, Head(w.pvt.checkpoints).name)
             w2 == FireHostEvent(w1, "media_play_complete")
             w3 == NotePlayed(w2, Head(w.pvt.checkpoints))
         IN  FirePlayed([w3 EXCEPT !.pvt.checkpoints = Tail(@)], len)

\* SWITCH_ABC_TYPE_WRITE_REPLACE for one outgoing frame of FrameLen bytes
write_replace(w) ==
    IF w.pvt.write_buffer < FrameLen THEN w
    ELSE FirePlayed([w EXCEPT !.pvt.write_buffer = @ - FrameLen,
                              !.pvt.stream_input_played = @ + FrameLen], FrameLen)

\* eventCallback, case AudioPipe::CONNECT_SUCCESS
OnConnectSuccess(w) ==
    LET w1 == FireHostEvent(w, "connection_established")
        w2 == [w1 EXCEPT !.pvt.is_started = 1,
                         !.pvt.start_time = 1,
                         !.pvt.task_id = 1,
                         !.pvt.stream_timeout_task_id = 2,
                         !.sched.hb.rt = HEARTBEAT_INTERVAL_SECONDS,
                         !.sched.to.rt = w.pvt.stream_end_timeout,
                         !.obs.timersStarted = IF @ < MaxCount THEN @ + 1 ELSE @]
    IN  addEventBuffer(w2, DummyMsg)

\* eventCallback, case AudioPipe::CONNECT_FAIL
OnConnectFail(w) ==
    LET w1 == IF w.pvt.audio_pipe_ptr
              THEN [w EXCEPT !.ap = DeadPipe(w.ap), !.pvt.audio_pipe_ptr = FALSE]
              ELSE w
        w2 == FireHostEvent(w1, "connection_failed")
    IN  IF w2.pvt.channel_closing THEN w2
        ELSE stream_session_cleanup(
                 [w2 EXCEPT !.pvt.stream_termination_reason =
                                TERMINATION_REASON_CONNECTION_ERROR],
                 FALSE, w2.pvt.is_started # 1)

\* eventCallback, case AudioPipe::CONNECTION_TIMEOUT
OnConnectionTimeout(w) ==
    LET w1 == FireHostEvent(w, "connection_timeout")
    IN  stream_session_graceful_shutdown(
            [w1 EXCEPT !.pvt.stream_termination_reason =
                           TERMINATION_REASON_CONNECTION_ERROR])

\* eventCallback, case AudioPipe::CONNECTION_DROPPED
OnConnectionDropped(w) ==
    LET w1 == FireHostEvent([w EXCEPT !.pvt.audio_pipe_ptr = FALSE], "connection_closed")
    IN  IF w1.pvt.channel_closing THEN w1
        ELSE stream_session_cleanup(
                 [w1 EXCEPT !.pvt.stream_termination_reason =
                                TERMINATION_REASON_CONNECTION_ERROR],
                 FALSE, FALSE)

\* eventCallback, case AudioPipe::CONNECTION_CLOSED_GRACEFULLY
OnClosedGracefully(w) ==
    LET w1 == [w EXCEPT !.pvt.audio_pipe_ptr = FALSE]
    IN  IF w1.pvt.channel_closing THEN w1
        ELSE stream_session_cleanup(w1, FALSE, FALSE)

eventCallback(w, event) ==
    IF ~LocateTechPvt(w) THEN w
    ELSE CASE event = "CONNECT_SUCCESS" -> OnConnectSuccess(w)
           [] event = "CONNECT_FAIL" -> OnConnectFail(w)
           [] event = "CONNECTION_TIMEOUT" -> OnConnectionTimeout(w)
           [] event = "CONNECTION_DEGRADED" -> FireHostEvent(w, "connection_degraded")
           [] event = "CONNECTION_DROPPED" -> OnConnectionDropped(w)
           [] event = "CONNECTION_CLOSED_GRACEFULLY" -> OnClosedGracefully(w)
           [] OTHER -> w

\* eventCallback, case AudioPipe::MESSAGE
eventCallbackMessage(w, m) ==
    IF ~LocateTechPvt(w) THEN w ELSE processIncomingMessage(w, m)

(***************************************************************************)
(* audio_pipe.cpp, the service thread.                                     *)
(***************************************************************************)
\* case LWS_CALLBACK_CLIENT_RECEIVE, for the final fragment of a text message
OnReceive(w, id, m) ==
    IF ~w.lws.wsi[id].user THEN w
    ELSE IF ~w.ap.alive THEN Crash(w)
    ELSE IF ~w.ap.m_is_bidirectional THEN w
    ELSE eventCallbackMessage(w, m)

FreeWsi(w) == {i \in WsiIds : w.lws.wsi[i].st = "free"}

HasFreeWsi(w) == FreeWsi(w) # {}

NewWsi(w) == CHOOSE i \in FreeWsi(w) : \A j \in FreeWsi(w) : i <= j

\* lws_sul_schedule(..., ap->reconnect, RECONNECTION_DELAY_SECONDS)
lws_sul_schedule(w) ==
    [w EXCEPT !.lws.sul = @ \cup {RECONNECTION_DELAY_SECONDS}]

\* lws_client_connect_via_info: a new socket, or NULL when ok is FALSE
\* the observer's record of one connection attempt
NoteAttempt(w) ==
    [w EXCEPT !.obs.attemptsInARow = @ + 1,
              !.obs.spaced = @ /\ (w.obs.attemptsInARow = 0
                                   \/ w.obs.sinceAttempt >= RECONNECTION_DELAY_SECONDS),
              !.obs.sinceAttempt = 0]

lws_client_connect_via_info(w, ok) ==
    IF ok
    THEN NoteAttempt([w EXCEPT !.lws.wsi[NewWsi(w)].st = "connecting",
                               !.ap.m_wsi = NewWsi(w)])
    ELSE NoteAttempt([w EXCEPT !.ap.m_wsi = 0])

\* "assert(m_vhd == nullptr)" aborts the process in a build with assertions
\* and is absent from a build with NDEBUG: asserts tells which build this is
connect_client(w, ok, asserts) ==
    IF w.ap.m_vhd /\ asserts THEN Crash(w)
    ELSE LET w1 == [w EXCEPT !.ap.m_state = "CONNECTING", !.ap.m_vhd = TRUE]
             w2 == lws_client_connect_via_info(w1, ok)
         IN  [w2 EXCEPT !.ap.m_connection_attempts = @ + 1]

processPendingConnects(w, ok, asserts) ==
    IF ~(w.lws.pendingConnects /\ w.ap.alive
         /\ w.ap.m_state \in {"IDLE", "RECONNECTING"})
    THEN w
    ELSE LET w1 == connect_client(w, ok, asserts)
         IN  IF ok \/ w1.obs.crashed THEN w1
             ELSE IF w1.ap.m_connection_attempts > MAX_CONNECTION_ATTEMPTS
                  THEN eventCallback([w1 EXCEPT !.ap.m_state = "FAILED"], "CONNECT_FAIL")
                  ELSE lws_sul_schedule([w1 EXCEPT !.ap.m_state = "FAILED"])

processPendingDisconnects(w) ==
    LET w1 == [w EXCEPT !.lws.pendingDisconnects = FALSE]
    IN  IF w.lws.pendingDisconnects /\ w.ap.alive /\ w.ap.m_state = "DISCONNECTING"
        THEN lws_callback_on_writable(w1, w1.ap.m_wsi)
        ELSE w1

processPendingWrites(w) ==
    LET w1 == [w EXCEPT !.lws.pendingWrites = FALSE]
    IN  IF w.lws.pendingWrites /\ w.ap.alive /\ w.ap.m_state = "CONNECTED"
        THEN lws_callback_on_writable(w1, w1.ap.m_wsi)
        ELSE w1

\* findAndRemovePendingConnect / findAndRemovePendingReconnect: is the pipe
\* found for this socket, and the list after the removals
FoundPendingConnect(w, id) ==
    w.lws.pendingConnects /\ w.ap.alive /\ w.ap.m_state = "CONNECTING" /\ w.ap.m_wsi = id

FoundPendingReconnect(w, id) ==
    /\ ~FoundPendingConnect(w, id)
    /\ w.lws.pendingReconnects /\ w.ap.alive
    /\ w.ap.m_state = "RECONNECTING" /\ w.ap.m_wsi = id

findAndRemovePending(w, id) ==
    LET dropC == w.ap.alive /\ (w.ap.m_wsi = 0 \/ FoundPendingConnect(w, id))
        dropR == ~FoundPendingConnect(w, id)
                 /\ w.ap.alive /\ (w.ap.m_wsi = 0 \/ FoundPendingReconnect(w, id))
    IN  [w EXCEPT !.lws.pendingConnects = @ /\ ~dropC,
                  !.lws.pendingReconnects = @ /\ ~dropR]

\* the socket is gone: its slot can be taken by a later connection
FreeSocket(w, id) ==
    [w EXCEPT !.lws.wsi[id] = [st |-> "free", user |-> FALSE, writable |-> FALSE, pollout |-> TRUE]]

\* the socket is closed by lws after the callback returns -1
CloseSocket(w, id) == [w EXCEPT !.lws.wsi[id].st = "closing", !.lws.wsi[id].writable = FALSE]

\* lws_write of one text frame; the observer notes with it on which
\* connection of the session it went out, whether graceful shutdown had
\* been requested by then, and whether a frame was waiting in a ring buffer
\* when the writable callback began
lws_write(w, m) ==
    [w EXCEPT !.obs.wire =
        Append(@, [ev |-> m.ev, sn |-> m.sn, arg |-> m.arg,
                   conn |-> w.obs.establishedCount,
                   graceful |-> w.ap.m_gracefulShutdown,
                   buffered |-> m.ev # "media" /\ ~allBuffersAreEmpty(w.ap)])]

\* case LWS_CALLBACK_CLIENT_CONNECTION_ERROR
OnConnectionError(w, id) ==
    LET found == FoundPendingConnect(w, id) \/ FoundPendingReconnect(w, id)
        w1 == findAndRemovePending(FreeSocket(w, id), id)
    IN  IF ~found THEN w1
        ELSE IF CanRetry(w1.ap.m_connection_attempts)
             THEN lws_sul_schedule([w1 EXCEPT !.ap.m_state = "FAILED"])
             ELSE eventCallback([w1 EXCEPT !.ap.m_state = "FAILED"], "CONNECT_FAIL")

\* case LWS_CALLBACK_CLIENT_ESTABLISHED
OnEstablished(w, id) ==
    LET found == FoundPendingConnect(w, id) \/ FoundPendingReconnect(w, id)
        w1 == findAndRemovePending([w EXCEPT !.lws.wsi[id].st = "open"], id)
        w2 == [w1 EXCEPT !.lws.wsi[id].user = TRUE,
                         !.ap.m_vhd = TRUE,
                         !.ap.m_connection_attempts = 0,
                         !.ap.m_state = "CONNECTED",
                         !.obs.establishedCount = IF @ < MaxCount THEN @ + 1 ELSE @,
                         !.obs.attemptsInARow = 0,
                         !.obs.reconnectsInARow = 0]
    IN  IF ~found THEN w1
        ELSE IF NotifyConnectSuccess(w2.ap.m_stream_started)
             THEN [eventCallback(w2, "CONNECT_SUCCESS") EXCEPT !.ap.m_stream_started = TRUE]
             ELSE w2

\* "delete ap" at the end of LWS_CALLBACK_CLIENT_CLOSED
DeletePipe(w, id) ==
    [w EXCEPT !.ap = DeadPipe(w.ap)]

\* case LWS_CALLBACK_CLIENT_CLOSED
OnClosed(w0, id) ==
    LET w == FreeSocket(w0, id)
    IN  IF ~w0.lws.wsi[id].user THEN w
        ELSE IF ~w.ap.alive THEN Crash(w)
        ELSE IF w.ap.m_gracefulShutdown \/ w.ap.m_state = "DISCONNECTING"
             THEN DeletePipe(eventCallback(w, "CONNECTION_CLOSED_GRACEFULLY"), id)
        ELSE IF w.ap.m_state = "CONNECTED"
             THEN IF CanRetry(w.ap.m_connection_attempts)
                  THEN lws_sul_schedule([w EXCEPT !.ap.m_state = "DISCONNECTED"])
                  ELSE DeletePipe(eventCallback(w, "CONNECTION_DROPPED"), id)
        ELSE DeletePipe(w, id)

\* AudioPipe::reconnect, the callback of the sul timer
reconnect(w) ==
    IF ~w.ap.alive THEN Crash(w)
    ELSE LET w1 == [w EXCEPT !.ap.m_connection_attempts = @ + 1,
                             !.ap.m_state = "RECONNECTING",
                             !.lws.pendingReconnects = TRUE,
                             !.obs.reconnectsInARow = @ + 1,
                             !.env.reconnects = @ - 1]
         IN  lws_client_connect_via_info(w1, TRUE)

\* Buffer::read of one chunk
BufRead(b) == [b EXCEPT !.inuse = @ - 1, !.transmitted = @ + 1]

\* the audio part of LWS_CALLBACK_CLIENT_WRITEABLE
WriteAudio(w, id) ==
    LET both == w.ap.m_bothTracks
        useOb == both /\ w.ap.m_switch
        buf == IF useOb THEN w.ap.m_ob_audio_buffer ELSE w.ap.m_audio_buffer
        tr == IF both THEN (IF useOb THEN "outbound" ELSE "inbound")
              ELSE (IF w.ap.m_track = "inbound" THEN "inbound" ELSE "outbound")
        flip == [w EXCEPT !.ap.m_switch = IF both THEN ~@ ELSE @]
    IN  IF ~is_data_available(buf)
        THEN IF w.ap.m_gracefulShutdown THEN lws_callback_on_writable(flip, id) ELSE flip
        ELSE LET w1 == IF useOb THEN [flip EXCEPT !.ap.m_ob_audio_buffer = BufRead(@)]
                       ELSE [flip EXCEPT !.ap.m_audio_buffer = BufRead(@)]
                 w2 == lws_write(w1, Msg("media", w.ap.m_sequenceNumber, tr))
             IN  lws_callback_on_writable(increaseSequenceNumber(w2), id)

\* case LWS_CALLBACK_CLIENT_WRITEABLE
OnWriteable(w0, id) ==
    LET w == [w0 EXCEPT !.lws.wsi[id].writable = FALSE]
        sn == w.ap.m_sequenceNumber
    IN  IF ~w.lws.wsi[id].user THEN w
        ELSE IF ~w.ap.alive THEN Crash(w)
        ELSE IF w.ap.m_gracefulShutdown
                /\ GracefulDeadlinePassed(w.ap.m_gracefulShutdown_ago)
             THEN CloseSocket([w EXCEPT !.ap.m_state = "DISCONNECTING",
                                        !.obs.closedByDeadline = TRUE], id)
        ELSE IF w.ap.m_gracefulShutdown
                /\ StopDue(allBuffersAreEmpty(w.ap), w.ap.m_lastMsgSent)
             THEN lws_callback_on_writable(
                      [increaseSequenceNumber(lws_write(w, Seqd("stop", sn)))
                          EXCEPT !.ap.m_lastMsgSent = TRUE,
                                 !.ap.m_state = "DISCONNECTING"], id)
        ELSE IF StartDue(w.ap.m_firstMsgSent)
             THEN lws_callback_on_writable(
                      [increaseSequenceNumber(lws_write(w, Seqd("start", sn)))
                          EXCEPT !.ap.m_firstMsgSent = TRUE], id)
        ELSE IF w.ap.m_events # << >> /\ Head(w.ap.m_events) # DummyMsg
             THEN lws_callback_on_writable(
                      lws_write([w EXCEPT !.ap.m_events = Tail(@)], Head(w.ap.m_events)), id)
        ELSE LET w1 == [w EXCEPT !.ap.m_events = IF @ = << >> THEN @ ELSE Tail(@)]
             IN  IF w1.ap.m_state = "DISCONNECTING" THEN CloseSocket(w1, id)
                 ELSE WriteAudio(w1, id)

(***************************************************************************)
(* Actions of the service thread.                                          *)
(***************************************************************************)
Running == ~obs.crashed

\* case LWS_CALLBACK_EVENT_WAIT_CANCELLED: the three pending lists in turn
OnEventWaitCancelled(w, ok, asserts) ==
    processPendingWrites(processPendingDisconnects(
        processPendingConnects([w EXCEPT !.lws.cancelled = FALSE], ok, asserts)))

EventWaitCancelled ==
    /\ Running
    /\ lws.cancelled
    /\ HasFreeWsi(World)
    /\ \E asserts \in BOOLEAN : Commit(OnEventWaitCancelled(World, TRUE, asserts))

\* the same callback when lws_client_connect_via_info returns NULL
EventWaitCancelledNoSocket ==
    /\ Running
    /\ lws.cancelled
    /\ lws.pendingConnects /\ ap.alive /\ ap.m_state \in {"IDLE", "RECONNECTING"}
    /\ env.refusals > 0
    /\ \E asserts \in BOOLEAN :
         Commit(OnEventWaitCancelled([World EXCEPT !.env.refusals = @ - 1], FALSE, asserts))

ConnectionError(id) ==
    /\ Running
    /\ lws.wsi[id].st = "connecting"
    /\ Commit(OnConnectionError(World, id))

Established(id) ==
    /\ Running
    /\ lws.wsi[id].st = "connecting"
    /\ Commit(OnEstablished(World, id))

Closed(id) ==
    /\ Running
    /\ lws.wsi[id].st \in {"open", "closing"}
    /\ Commit(OnClosed(World, id))

Writeable(id) ==
    /\ Running
    /\ lws.wsi[id].st = "open"
    /\ lws.wsi[id].writable
    /\ lws.wsi[id].pollout
    /\ Commit(OnWriteable(World, id))

\* the far end stops reading and the socket takes no more data: from here
\* on lws has no writable callback to deliver on it
SocketFull(id) ==
    /\ Running
    /\ lws.wsi[id].st = "open"
    /\ lws.wsi[id].pollout
    /\ Commit([World EXCEPT !.lws.wsi[id].pollout = FALSE])

\* a text message from the far end: whether it parses as JSON, its event,
\* whether it has a media object and a payload in it, the content type and
\* the sample rate it gives (-1 when it gives none), and the bytes of audio
\* its payload comes to at the rate of the call
PlayOf(contentType, sampleRate, n) ==
    [json |-> TRUE, event |-> "media.play", media |-> TRUE, payload |-> TRUE,
     contentType |-> contentType, sampleRate |-> sampleRate, bytes |-> n]

ControlOf(event) ==
    [json |-> TRUE, event |-> event, media |-> FALSE, payload |-> FALSE,
     contentType |-> Absent, sampleRate |-> -1, bytes |-> 0]

\* the well-formed messages the far end may send
InboundMessages ==
    {PlayOf("audio/x-l16", 8000, n) : n \in 1..MaxPlay}
    \cup {ControlOf("media.checkpoint"), ControlOf("media.clear")}

\* messages of every kind processIncomingMessage and processPlayAudioEvent
\* tell apart
IngressMessages ==
    {PlayOf(ct, r, FrameLen) :
        ct \in {"audio/x-l16", "audio/x-mulaw", "raw", "audio/ogg"},
        r \in {8000, 16000, 24000}}
    \cup {[PlayOf("audio/x-l16", 8000, FrameLen) EXCEPT !.media = FALSE],
          [PlayOf("audio/x-l16", 8000, FrameLen) EXCEPT !.payload = FALSE],
          PlayOf(Absent, 8000, FrameLen),
          PlayOf("audio/x-l16", -1, FrameLen)}
    \cup {[ControlOf(Absent) EXCEPT !.json = FALSE],
          ControlOf(Absent),
          ControlOf("media.stop"),
          ControlOf("transcription.send")}

Receive(id) ==
    /\ Running
    /\ lws.wsi[id].st = "open"
    /\ env.inbound > 0
    /\ \E m \in InboundMessages :
         Commit(OnReceive([World EXCEPT !.env.inbound = @ - 1], id, m))

\* the messages the protocol calls invalid: not JSON, no event, an event
\* that is none of the four accepted ones, or a media.play that lacks a
\* field, names a content type that is not supported or asks for mu-law at
\* 16000 Hz
IsInvalid(m) ==
    \/ ~m.json
    \/ m.event = Absent
    \/ m.event \notin {"media.play", "media.checkpoint", "media.clear", "transcription.send"}
    \/ /\ m.event = "media.play"
       /\ \/ ~m.media \/ ~m.payload \/ m.contentType = Absent \/ m.sampleRate = -1
          \/ m.contentType \notin {"audio/x-l16", "audio/x-mulaw", "raw", "wav"}
          \/ m.contentType = "audio/x-mulaw" /\ m.sampleRate = 16000

\* a far end that sends whatever it likes; the observer counts the invalid
\* messages it sent
ReceiveAny(id) ==
    /\ Running
    /\ lws.wsi[id].st = "open"
    /\ env.inbound > 0
    /\ \E m \in IngressMessages :
         Commit(OnReceive([World EXCEPT !.env.inbound = @ - 1,
                                        !.obs.invalidSeen =
                                            IF IsInvalid(m) /\ @ < MaxCount
                                            THEN @ + 1 ELSE @], id, m))

ReconnectTimer ==
    /\ Running
    /\ HasFreeWsi(World)
    /\ env.reconnects > 0
    /\ 0 \in lws.sul
    /\ Commit(reconnect([World EXCEPT !.lws.sul = @ \ {0}]))

\* What is waiting for time to pass, each as the seconds left: the reconnect
\* timers, the scheduler tasks, the graceful-shutdown deadline of the pipe,
\* and the observer's own deadline for the first graceful-shutdown request.
Waiting ==
    {t \in lws.sul : t > 0}
    \cup (IF sched.hb.rt > 0 THEN {sched.hb.rt} ELSE {})
    \cup (IF sched.to.rt > 0 THEN {sched.to.rt} ELSE {})
    \cup (IF ap.alive /\ ap.m_gracefulShutdown
             /\ ap.m_gracefulShutdown_ago < GRACEFUL_BUDGET_SECONDS
          THEN {GRACEFUL_BUDGET_SECONDS - ap.m_gracefulShutdown_ago} ELSE {})
    \cup (IF ap.alive /\ obs.gracefulFirstAgo >= 0
             /\ obs.gracefulFirstAgo < GRACEFUL_BUDGET_SECONDS
          THEN {GRACEFUL_BUDGET_SECONDS - obs.gracefulFirstAgo} ELSE {})
    \cup (IF ap.alive /\ obs.gracefulFirstAgo = GRACEFUL_BUDGET_SECONDS THEN {1} ELSE {})

Older(ago, d, cap) == IF ago + d > cap THEN cap ELSE ago + d

Sooner(rt, d) == IF rt > 0 THEN rt - d ELSE rt

\* d seconds pass
Elapse(w, d) ==
    [w EXCEPT !.lws.sul = {Sooner(t, d) : t \in @},
              !.sched.hb.rt = Sooner(@, d),
              !.sched.to.rt = Sooner(@, d),
              !.ap.m_gracefulShutdown_ago =
                  IF w.ap.alive /\ w.ap.m_gracefulShutdown
                  THEN Older(@, d, GRACEFUL_BUDGET_SECONDS) ELSE @,
              !.obs.gracefulFirstAgo =
                  IF @ >= 0 THEN Older(@, d, GRACEFUL_BUDGET_SECONDS + 1) ELSE @,
              !.obs.sinceAttempt = Older(@, d, RECONNECTION_DELAY_SECONDS)]

\* time passes, up to the next instant at which something is due
Tick ==
    /\ Running
    /\ \E d \in Waiting :
         /\ \A e \in Waiting : d <= e
         /\ Commit(Elapse(World, d))

(***************************************************************************)
(* Host threads: media bug callbacks, API commands, scheduler tasks.       *)
(***************************************************************************)
\* Buffer::write of one chunk: FALSE when the ring is full
BufCanWrite(b) == b.inuse < BufCap

BufWrite(b) == [b EXCEPT !.inuse = @ + 1, !.generated = @ + 1]

\* a variant of Degraded, used to see that the properties of this module
\* tell it apart
DegradedAtLeast(b) == 10 * b.inuse >= 3 * BufCap * b.notif

\* "current_usage_bytes_ > maximum_capacity_bytes_ * (degradation_notification_sent_ * .3)"
\* in the double arithmetic of the code: the product is exact for the
\* counter values 1 and 2, and for 3 it is just under nine tenths of the
\* capacity (3 * .3 is 0.8999999999999999; 16000 of it is 14399.999999999998),
\* so that a ring filled to exactly nine tenths is above it
Degraded(b) ==
    IF b.notif = 3 THEN 10 * b.inuse >= 9 * BufCap
    ELSE 10 * b.inuse > 3 * BufCap * b.notif

\* stream_frame past its early returns, for one frame read from bug b
stream_frame(w, b) ==
    LET useOb == w.ap.m_bothTracks /\ b = "out"
        buf0 == IF useOb THEN w.ap.m_ob_audio_buffer ELSE w.ap.m_audio_buffer
        write_success == BufCanWrite(buf0)
        buf1 == IF write_success THEN BufWrite(buf0) ELSE buf0
        degraded == Degraded(buf1)
        buf2 == IF degraded THEN [buf1 EXCEPT !.notif = @ + 1] ELSE buf1
        w1 == [w EXCEPT !.env.frames = @ - 1,
                        !.obs.degradedAt =
                            IF degraded THEN Append(@, buf1.inuse) ELSE @,
                        !.obs.degradedUnwritten = @ \/ (degraded /\ ~write_success)]
        w2 == IF useOb THEN [w1 EXCEPT !.ap.m_ob_audio_buffer = buf2]
              ELSE [w1 EXCEPT !.ap.m_audio_buffer = buf2]
        w3 == IF degraded THEN eventCallback(w2, "CONNECTION_DEGRADED") ELSE w2
        w4 == IF write_success THEN w3 ELSE eventCallback(w3, "CONNECTION_TIMEOUT")
    IN  IF write_success THEN addPendingWrite(w4) ELSE w4

Capture(b) ==
    /\ Running
    /\ pvt.callUp
    /\ b \in pvt.bugs
    /\ env.frames > 0
    /\ pvt.bugArgs[b]
    /\ ~pvt.audio_paused
    /\ ~pvt.graceful_shutdown
    /\ pvt.alive
    /\ pvt.audio_pipe_ptr
    /\ ap.alive
    /\ ap.m_state = "CONNECTED"
    /\ Commit(stream_frame(World, b))

\* the call sends one frame to the caller: the bug that was added with
\* SMBF_WRITE_REPLACE gets it first
WriteReplace(b) ==
    /\ Running
    /\ pvt.callUp
    /\ b \in pvt.bugs
    /\ b = "in" /\ pvt.track = "inbound" /\ pvt.is_bidirectional
    /\ pvt.bugArgs[b]
    /\ pvt.write_buffer >= FrameLen
    /\ \E benign \in BOOLEAN :
         Commit([write_replace([World EXCEPT !.obs.benign = benign])
                     EXCEPT !.obs.benign = FALSE])

StopCmd ==
    /\ Running
    /\ pvt.callUp
    /\ pvt.bugPriv # "none"
    /\ Commit(do_stop(World))

GracefulCmd ==
    /\ Running
    /\ pvt.callUp
    /\ pvt.bugPriv # "none"
    /\ env.gracefuls > 0
    /\ Commit(do_graceful_shutdown([World EXCEPT !.env.gracefuls = @ - 1], FALSE))

\* the call ends: the host closes every media bug still attached, in the
\* order they were added, and the session goes away
Hangup ==
    /\ Running
    /\ pvt.callUp
    /\ \E benign \in BOOLEAN :
         LET w0 == [World EXCEPT !.obs.benign = benign]
             w1 == IF "in" \in pvt.bugs THEN BugClose(w0, "in") ELSE w0
             w2 == IF "out" \in pvt.bugs THEN BugClose(w1, "out") ELSE w1
         IN  Commit([w2 EXCEPT !.pvt.bugs = {}, !.pvt.callUp = FALSE,
                               !.obs.benign = FALSE])

\* heartbeat_callback: fires its event and sets its next run time while the
\* session exists
Heartbeat ==
    /\ Running
    /\ sched.hb.rt = 0
    /\ LET w1 == IF pvt.callUp THEN FireHostEvent(World, "stream_heartbeat") ELSE World
       IN  Commit([w1 EXCEPT !.sched.hb.rt =
                                 IF pvt.callUp THEN HEARTBEAT_INTERVAL_SECONDS ELSE -1])

\* stream_timeout_callback, a one-shot task
TimeoutTask ==
    /\ Running
    /\ sched.to.rt = 0
    /\ LET w1 == [World EXCEPT !.sched.to.rt = -1,
                               !.obs.timeoutTaskFired = TRUE]
       IN  Commit(IF pvt.callUp THEN do_graceful_shutdown(w1, TRUE) ELSE w1)

(***************************************************************************)
(* The start command: stream_function and start_capture, one step per call *)
(* that reads or changes the channel, for commands given on one call with  *)
(* one stream-id from different threads.                                   *)
(***************************************************************************)
CmdIds == 1..MaxStarts

\* the arguments a start command is given
UrlArgs == {"wss://h/p", "ws://h/p", "ftp://h/p"}

TrackArgs == {"inbound", "both", "mixed"}

RateArgs == {"8k", "16000", "12000", "0", "-8000"}

NoCommands ==
    [ private |-> 0,
      bugs |-> {},
      sessions |-> {},
      cmd |-> [t \in CmdIds |-> [pc |-> "idle", url |-> "", track |-> "", rate |-> ""]] ]

\* parse_ws_uri: 1 for the schemes https, wss, http and ws
parse_ws_uri(url) ==
    url \in {"https://h/p", "wss://h/p", "http://h/p", "ws://h/p"}

\* atoi of the rate texts above
atoi(text) ==
    CASE text = "16000" -> 16000
      [] text = "12000" -> 12000
      [] text = "-8000" -> -8000
      [] OTHER -> 0

\* "16k", "8k" or atoi(argv[6])
SamplingOf(text) ==
    IF text = "16k" THEN 16000 ELSE IF text = "8k" THEN 8000 ELSE atoi(text)

\* the % of C: the remainder has the sign of the dividend
CRem(a, b) == IF a >= 0 THEN a % b ELSE -((-a) % b)

\* stream_function, verb start, up to the call of start_capture
StartCmd(t) ==
    /\ chan.cmd[t].pc = "idle"
    /\ \E url \in UrlArgs, track \in TrackArgs, rate \in RateArgs :
         LET refused == \/ track \notin {"inbound", "outbound", "both"}
                        \/ ~parse_ws_uri(url)
                        \/ CRem(SamplingOf(rate), 8000) # 0
         IN  chan' = [chan EXCEPT !.cmd[t] =
                          [pc |-> IF refused THEN "err" ELSE "start_capture",
                           url |-> url, track |-> track, rate |-> rate]]
    /\ UNCHANGED <<engine, unit>>

\* start_capture: "if (switch_channel_get_private(channel, stream_id)) return SWITCH_STATUS_FALSE"
StartCapture(t) ==
    /\ chan.cmd[t].pc = "start_capture"
    /\ chan' = [chan EXCEPT !.cmd[t].pc = IF chan.private # 0 THEN "err" ELSE "init"]
    /\ UNCHANGED <<engine, unit>>

\* stream_session_init: tech_pvt and its AudioPipe, or SWITCH_STATUS_FALSE
SessionInit(t) ==
    /\ chan.cmd[t].pc = "init"
    /\ \E ok \in BOOLEAN :
         chan' = IF ok THEN [chan EXCEPT !.sessions = @ \cup {t}, !.cmd[t].pc = "bug"]
                 ELSE [chan EXCEPT !.cmd[t].pc = "err"]
    /\ UNCHANGED <<engine, unit>>

\* the media bugs of a track, in the order start_capture adds them
BugsOf(track) ==
    IF track = "inbound" THEN <<"in">>
    ELSE IF track = "outbound" THEN <<"out">> ELSE <<"in", "out">>

\* add_media_bug: the next bug of the session, or NULL and start_capture
\* returns SWITCH_STATUS_FALSE
AddBug(t) ==
    /\ chan.cmd[t].pc = "bug"
    /\ LET todo == SelectSeq(BugsOf(chan.cmd[t].track),
                             LAMBDA d : [owner |-> t, dir |-> d] \notin chan.bugs)
       IN  \E ok \in BOOLEAN :
             chan' = IF ~ok THEN [chan EXCEPT !.cmd[t].pc = "err"]
                     ELSE [chan EXCEPT !.bugs = @ \cup {[owner |-> t, dir |-> Head(todo)]},
                                       !.cmd[t].pc = IF Len(todo) = 1 THEN "set" ELSE "bug"]
    /\ UNCHANGED <<engine, unit>>

\* switch_channel_set_private(channel, stream_id, bug); return SWITCH_STATUS_SUCCESS
SetPrivate(t) ==
    /\ chan.cmd[t].pc = "set"
    /\ chan' = [chan EXCEPT !.private = t, !.cmd[t].pc = "ok"]
    /\ UNCHANGED <<engine, unit>>

\* no component is exercised on its own
NoUnit == [kind |-> "none"]

\* the state after a successful "start" command with parameters cfg
Started(cfg) ==
    /\ ap = NewAudioPipe(cfg)
    /\ lws = NewLws
    /\ pvt = NewTechPvt(cfg)
    /\ sched = NewSched
    /\ obs = NewObs
    /\ chan = NoCommands
    /\ unit = NoUnit

\* a caller that streams audio, over a far end that drops the connection
\* at most MaxFlaps times
Streaming ==
    env = [reconnects |-> MaxFlaps, refusals |-> 0, inbound |-> 0,
           frames |-> MaxFrames, gracefuls |-> MaxGraceful]

Init ==
    /\ Started([track |-> "inbound", bidi |-> TRUE, timeout |-> 2])
    /\ Streaming

Next ==
    \/ EventWaitCancelled
    \/ \E id \in WsiIds : ConnectionError(id)
    \/ \E id \in WsiIds : Established(id)
    \/ \E id \in WsiIds : Closed(id)
    \/ \E id \in WsiIds : Writeable(id)
    \/ ReconnectTimer
    \/ \E b \in BugIds : Capture(b)
    \/ StopCmd
    \/ GracefulCmd
    \/ Hangup
    \/ Heartbeat
    \/ TimeoutTask
    \/ Tick

Spec == Init /\ [][Next]_vars

(***************************************************************************)
(* The same with both directions of the call captured, and with the        *)
(* stream-end timeout given as 0.                                          *)
(***************************************************************************)
InitBoth ==
    /\ Started([track |-> "both", bidi |-> FALSE, timeout |-> 2])
    /\ env = [reconnects |-> MaxFlaps, refusals |-> 0, inbound |-> 0,
              frames |-> MaxFramesBoth, gracefuls |-> MaxGraceful]

SpecBoth == InitBoth /\ [][Next]_vars

InitNoTimeout ==
    /\ Started([track |-> "inbound", bidi |-> TRUE, timeout |-> 0])
    /\ Streaming

SpecNoTimeout == InitNoTimeout /\ [][Next]_vars

(***************************************************************************)
(* The connection life cycle alone: a far end that may refuse or drop the  *)
(* connection again and again, no audio.                                   *)
(***************************************************************************)
InitConn ==
    /\ Started([track |-> "inbound", bidi |-> TRUE, timeout |-> 61])
    /\ env = [reconnects |-> MaxReconnects, refusals |-> MaxRefusals, inbound |-> 0,
              frames |-> 0, gracefuls |-> 0]

NextConn ==
    \/ EventWaitCancelled
    \/ EventWaitCancelledNoSocket
    \/ \E id \in WsiIds : ConnectionError(id)
    \/ \E id \in WsiIds : Established(id)
    \/ \E id \in WsiIds : Closed(id)
    \/ \E id \in WsiIds : Writeable(id)
    \/ ReconnectTimer
    \/ StopCmd
    \/ Hangup
    \/ Heartbeat
    \/ TimeoutTask
    \/ Tick

SpecConn == InitConn /\ [][NextConn]_vars

(***************************************************************************)
(* Playback: the far end sends audio, checkpoints and clears to a session  *)
(* with bidirectional audio, in the time before the first task of the      *)
(* session is due; a connection that is lost is not made again.            *)
(***************************************************************************)
InitPlay ==
    /\ Started([track |-> "inbound", bidi |-> TRUE, timeout |-> 2])
    /\ env = [reconnects |-> 0, refusals |-> 0, inbound |-> MaxInbound,
              frames |-> MaxFramesBoth, gracefuls |-> MaxGraceful]

NextPlay ==
    \/ EventWaitCancelled
    \/ \E id \in WsiIds : ConnectionError(id)
    \/ \E id \in WsiIds : Established(id)
    \/ \E id \in WsiIds : Closed(id)
    \/ \E id \in WsiIds : Writeable(id)
    \/ \E id \in WsiIds : Receive(id)
    \/ \E b \in BugIds : Capture(b)
    \/ \E b \in BugIds : WriteReplace(b)
    \/ StopCmd
    \/ GracefulCmd
    \/ Hangup

SpecPlay == InitPlay /\ [][NextPlay]_vars

(***************************************************************************)
(* Playback over a connection that stays up, with a call that goes on: the *)
(* far end sends up to MaxMix messages and the call mixes the audio into   *)
(* its outgoing frames.                                                    *)
(***************************************************************************)
InitMix ==
    /\ Started([track |-> "inbound", bidi |-> TRUE, timeout |-> 2])
    /\ env = [reconnects |-> 0, refusals |-> 0, inbound |-> MaxMix,
              frames |-> 0, gracefuls |-> 0]

NextMix ==
    \/ EventWaitCancelled
    \/ \E id \in WsiIds : Established(id)
    \/ \E id \in WsiIds : Writeable(id)
    \/ \E id \in WsiIds : Receive(id)
    \/ \E b \in BugIds : WriteReplace(b)

SpecMix == InitMix /\ [][NextMix]_vars

(***************************************************************************)
(* Start commands for one stream-id of one call, given from up to          *)
(* MaxStarts threads at any time; the sessions they start are not run.     *)
(***************************************************************************)
InitStart ==
    /\ Started([track |-> "inbound", bidi |-> TRUE, timeout |-> 2])
    /\ env = [reconnects |-> 0, refusals |-> 0, inbound |-> 0,
              frames |-> 0, gracefuls |-> 0]

NextStart ==
    \/ \E t \in CmdIds : StartCmd(t)
    \/ \E t \in CmdIds : StartCapture(t)
    \/ \E t \in CmdIds : SessionInit(t)
    \/ \E t \in CmdIds : AddBug(t)
    \/ \E t \in CmdIds : SetPrivate(t)

SpecStart == InitStart /\ [][NextStart]_vars

(***************************************************************************)
(* A far end that sends up to MaxIngress messages of any kind, well-formed *)
(* or not, over a connection that stays up, to a session started with or   *)
(* without bidirectional audio.                                            *)
(***************************************************************************)
InitIngress ==
    /\ \E bidi \in BOOLEAN :
         Started([track |-> "inbound", bidi |-> bidi, timeout |-> 2])
    /\ env = [reconnects |-> 0, refusals |-> 0, inbound |-> MaxIngress,
              frames |-> 0, gracefuls |-> 0]

NextIngress ==
    \/ EventWaitCancelled
    \/ \E id \in WsiIds : Established(id)
    \/ \E id \in WsiIds : Writeable(id)
    \/ \E id \in WsiIds : ReceiveAny(id)
    \/ \E b \in BugIds : WriteReplace(b)

SpecIngress == InitIngress /\ [][NextIngress]_vars

(***************************************************************************)
(* A caller that talks for longer than the ring holds, over a far end that *)
(* reads slowly or not at all; a connection that is lost is not made again.*)
(***************************************************************************)
InitFill ==
    /\ Started([track |-> "inbound", bidi |-> TRUE, timeout |-> 2])
    /\ env = [reconnects |-> 0, refusals |-> 0, inbound |-> 0,
              frames |-> MaxFill, gracefuls |-> 0]

NextFill ==
    \/ EventWaitCancelled
    \/ \E id \in WsiIds : Established(id)
    \/ \E id \in WsiIds : Closed(id)
    \/ \E id \in WsiIds : Writeable(id)
    \/ \E id \in WsiIds : SocketFull(id)
    \/ \E b \in BugIds : Capture(b)
    \/ Heartbeat
    \/ TimeoutTask
    \/ Tick

SpecFill == InitFill /\ [][NextFill]_vars

\* a component on its own: the session variables stay as constructed
Standalone ==
    /\ ap = NewAudioPipe([track |-> "inbound", bidi |-> TRUE, timeout |-> 2])
    /\ lws = NewLws
    /\ pvt = NewTechPvt([track |-> "inbound", bidi |-> TRUE, timeout |-> 2])
    /\ sched = NewSched
    /\ obs = NewObs
    /\ chan = NoCommands
    /\ env = [reconnects |-> 0, refusals |-> 0, inbound |-> 0,
              frames |-> 0, gracefuls |-> 0]

(***************************************************************************)
(* The ring buffer in bytes: the chunk size the AudioPipe gives it, what   *)
(* stream_frame writes into it and what a media message carries out of it. *)
(***************************************************************************)
L16_FRAME_SIZE_8KHZ_20MS == 320

ULAW_FRAME_SIZE_8KHZ_20MS == 160

Codecs == {"L16", "ULAW"}

\* wire rates a start command lets through, and the rates of the call's codec
WireRates == {0, 8000, 16000, 24000}

CallRates == {8000, 16000}

\* every codec sized as L16
step_frame_size_L16(codec, sampling) ==
    L16_FRAME_SIZE_8KHZ_20MS * (sampling \div 8000)

\* AudioPipe::AudioPipe: step_frame_size
step_frame_size(codec, sampling) ==
    IF codec = "ULAW" THEN ULAW_FRAME_SIZE_8KHZ_20MS * (sampling \div 8000)
    ELSE L16_FRAME_SIZE_8KHZ_20MS * (sampling \div 8000)

\* stream_data_init: buflen, for one channel and SizeChunks packets kept
buflen(codec, sampling) ==
    (((IF codec = "ULAW" THEN ULAW_FRAME_SIZE_8KHZ_20MS ELSE L16_FRAME_SIZE_8KHZ_20MS)
        * sampling) \div 8000) * SizeChunks

\* switch_buffer_write: all of datalen or nothing; the bytes in use, 0 when
\* refused and also when nothing was in use and datalen is 0
switch_buffer_write(b, datalen) ==
    IF datalen = 0 THEN [used |-> b.used, ret |-> b.used]
    ELSE IF b.used + datalen > b.max_len THEN [used |-> b.used, ret |-> 0]
    ELSE [used |-> b.used + datalen, ret |-> b.used + datalen]

\* switch_buffer_read: up to datalen of the bytes in use
switch_buffer_read(b, datalen) ==
    LET n == IF b.used < datalen THEN b.used ELSE datalen
    IN  [used |-> b.used - n, ret |-> n]

\* base64::base64_encode of n bytes: the characters and the padding among them
base64_encode(n) ==
    [chars |-> 4 * ((n + 2) \div 3), pad |-> (3 - (n % 3)) % 3]

\* what a receiver decodes from it
base64_decode(t) == 3 * (t.chars \div 4) - t.pad

\* the bytes of audio stream_frame holds when it calls Buffer::write: the
\* resampler's output, the mu-law encoding of the frame, or the frame
FrameBytes(u) ==
    LET frame == L16_FRAME_SIZE_8KHZ_20MS * (u.rate \div 8000)
    IN  IF u.rate # u.sampling THEN (frame * u.sampling) \div u.rate
        ELSE IF u.codec = "ULAW" THEN frame \div 2 ELSE frame

\* what the bytes are that stream_frame hands to Buffer::write: g711u_encode
\* is called on the frame of a mu-law session only where no resampler is
\* set; the output of the resampler is written as it is
FrameEncoding(u) ==
    IF u.rate # u.sampling THEN "L16"
    ELSE IF u.codec = "ULAW" THEN "ULAW" ELSE "L16"

NewSizing(codec, sampling, rate) ==
    [ kind |-> "sizing", codec |-> codec, sampling |-> sampling, rate |-> rate,
      chunk_size_bytes |-> step_frame_size(codec, sampling),
      max_len |-> buflen(codec, sampling),
      used |-> 0, current_usage_bytes |-> 0,
      generated |-> 0, generated_time |-> 0,
      transmitted |-> 0, last_send_time |-> 0,
      op |-> "Buffer", ret |-> TRUE, before |-> [used |-> 0, last_send_time |-> 0],
      refused |-> 0, held |-> {}, written |-> {}, payloads |-> {},
      frames |-> MaxSizeFrames ]

\* a variant of Buffer::read that leaves last_send_time_ alone
Buffer_read_untimed(u) ==
    LET r == switch_buffer_read(u, u.chunk_size_bytes)
    IN  IF r.ret # u.chunk_size_bytes
        THEN [u EXCEPT !.used = r.used, !.ret = FALSE]
        ELSE [u EXCEPT !.used = r.used, !.current_usage_bytes = r.used,
                       !.transmitted = @ + 1, !.ret = TRUE]

\* Buffer::read: a chunk out of the switch_buffer; generated_time_ and
\* last_send_time_ are counted in steps of time_step_increment_
Buffer_read(u) ==
    LET r == switch_buffer_read(u, u.chunk_size_bytes)
    IN  IF r.ret # u.chunk_size_bytes
        THEN [u EXCEPT !.used = r.used, !.ret = FALSE]
        ELSE [u EXCEPT !.used = r.used, !.current_usage_bytes = r.used,
                       !.last_send_time = @ + 1,
                       !.transmitted = @ + 1, !.ret = TRUE]

\* Buffer::write: a chunk into the switch_buffer
Buffer_write(u) ==
    LET r == switch_buffer_write(u, u.chunk_size_bytes)
    IN  IF r.ret = 0 THEN [u EXCEPT !.ret = FALSE]
        ELSE [u EXCEPT !.used = r.used, !.current_usage_bytes = r.used,
                       !.generated_time = @ + 1,
                       !.generated = @ + 1, !.ret = TRUE]

\* what the observer keeps of the buffer before an operation on it
Noted(u, op) ==
    [u EXCEPT !.op = op,
              !.before = [used |-> u.current_usage_bytes,
                          last_send_time |-> u.last_send_time]]

\* stream_frame: a frame of the call into the ring, Buffer::write
SizeCapture ==
    /\ unit.frames > 0
    /\ LET u == Buffer_write(Noted(unit, "write"))
       IN  unit' = [u EXCEPT !.frames = @ - 1,
                             !.held = @ \cup {FrameBytes(unit)},
                             !.written = IF u.ret THEN @ \cup {FrameEncoding(unit)}
                                         ELSE @,
                             !.refused = IF u.ret THEN @ ELSE @ + 1]
    /\ UNCHANGED <<engine, chan>>

\* LWS_CALLBACK_CLIENT_WRITEABLE, audio: Buffer::read and the media message
\* of generate_json_data_event
SizeWriteable ==
    /\ LET u == Buffer_read(Noted(unit, "read"))
           datalen == IF u.ret THEN unit.chunk_size_bytes ELSE 0
       IN  unit' = [u EXCEPT !.payloads = IF datalen = 0 THEN @
                                          ELSE @ \cup {base64_encode(datalen)}]
    /\ UNCHANGED <<engine, chan>>

\* the session of a start command with the rate 0 gets no resampler and never
\* runs: the rings that are written and read have a rate above 0
InitSize ==
    /\ Standalone
    /\ \E codec \in Codecs, sampling \in WireRates \ {0}, rate \in CallRates :
         unit = NewSizing(codec, sampling, rate)

NextSize == SizeCapture \/ SizeWriteable

SpecSize == InitSize /\ [][NextSize]_vars

(***************************************************************************)
(* The mixer of the write-replace callback, one sample of the outgoing     *)
(* frame and one sample of the injected audio at a time.                   *)
(***************************************************************************)
\* 16-bit samples: the ends of the range, their neighbours and values between
Samples == {-32768, -32767, -20000, -1, 0, 1, 20000, 32767}

\* the conversion of an int32_t to int16_t
ToInt16(n) == ((n + 32768) % 65536) - 32768

\* the sum left as it is
switch_normalize_never(n) == n

\* switch_normalize_to_16bit: SWITCH_SMAX above it, SWITCH_SMIN below it
switch_normalize_to_16bit(n) ==
    IF n > 32767 THEN 32767 ELSE IF n < -32768 THEN -32768 ELSE n

\* "int32_t mixed = fp[x] + (int16_t)data[x]; switch_normalize_to_16bit(mixed);
\* fp[x] = (int16_t)mixed"
MixOf(fp, data) == ToInt16(switch_normalize_to_16bit(fp + data))

\* one turn of the mix loop
MixSample ==
    /\ unit.kind = "mixer"
    /\ ~unit.mixed
    /\ unit' = [unit EXCEPT !.mixed = TRUE, !.out = MixOf(unit.fp, unit.data)]
    /\ UNCHANGED <<engine, chan>>

\* the next pair of samples of the frame
NextSample ==
    /\ unit.kind = "mixer"
    /\ unit.mixed
    /\ unit.left > 0
    /\ \E fp \in Samples, data \in Samples :
         unit' = [unit EXCEPT !.mixed = FALSE, !.fp = fp, !.data = data, !.left = @ - 1]
    /\ UNCHANGED <<engine, chan>>

InitMixer ==
    /\ Standalone
    /\ \E fp \in Samples, data \in Samples :
         unit = [kind |-> "mixer", fp |-> fp, data |-> data, out |-> fp,
                 mixed |-> FALSE, left |-> MaxSamples]

NextMixer == MixSample \/ NextSample

SpecMixer == InitMixer /\ [][NextMixer]_vars

(***************************************************************************)
(* AdaptiveBufferManager with one stream buffer: its priority queue is the *)
(* binary heap of std::priority_queue over MessageComparator.              *)
(***************************************************************************)
PRIORITY_CRITICAL == 0

PRIORITY_HIGH == 1

PRIORITY_NORMAL == 2

PRIORITY_LOW == 3

\* the messages a caller enqueues: a priority and a time stamp
Messages ==
    [priority : {PRIORITY_CRITICAL, PRIORITY_HIGH, PRIORITY_NORMAL}, timestamp : 1..MaxStamp]

NoMessage == [priority |-> PRIORITY_LOW, timestamp |-> 0]

\* within one priority the later time stamp first
MessageComparatorLatest(a, b) ==
    IF a.priority # b.priority THEN a.priority > b.priority
    ELSE a.timestamp < b.timestamp

\* MessageComparator::operator(): a is to come after b
MessageComparator(a, b) ==
    IF a.priority # b.priority THEN a.priority > b.priority
    ELSE a.timestamp > b.timestamp

\* std::push_heap: value rises from hole while its parent is to come after it
RECURSIVE push_heap(_, _, _)
push_heap(h, hole, value) ==
    IF hole > 1 /\ MessageComparator(h[hole \div 2], value)
    THEN push_heap([h EXCEPT ![hole] = h[hole \div 2]], hole \div 2, value)
    ELSE [h EXCEPT ![hole] = value]

\* std::__adjust_heap: the hole sinks to the bottom along the children that
\* are to come first, then value rises from there
RECURSIVE adjust_heap(_, _, _)
adjust_heap(h, hole, value) ==
    IF 2 * hole + 1 <= Len(h)
    THEN LET c == IF MessageComparator(h[2 * hole + 1], h[2 * hole])
                  THEN 2 * hole ELSE 2 * hole + 1
         IN  adjust_heap([h EXCEPT ![hole] = h[c]], c, value)
    ELSE IF 2 * hole = Len(h)
    THEN push_heap([h EXCEPT ![hole] = h[2 * hole]], 2 * hole, value)
    ELSE push_heap(h, hole, value)

\* priority_queue::push
QueuePush(h, m) == push_heap(Append(h, m), Len(h) + 1, m)

\* priority_queue::top
QueueTop(h) == h[1]

\* priority_queue::pop
QueuePop(h) ==
    IF Len(h) = 1 THEN << >>
    ELSE adjust_heap(SubSeq(h, 1, Len(h) - 1), 1, h[Len(h)])

\* should_drop_message, with update_buffer_statistics counting 1024 bytes
\* for a queued message
should_drop_message(u, m, expired) ==
    IF Len(u.queue) * 1024 >= u.max_size_bytes THEN m.priority > PRIORITY_HIGH
    ELSE expired

NewBufferContext ==
    [ kind |-> "abuf", queue |-> << >>, max_size_bytes |-> MaxQueued * 1024,
      op |-> "create_buffer", ret |-> TRUE, message |-> NoMessage, before |-> << >>,
      dropped |-> 0, ops |-> MaxQueueOps ]

\* enqueue_message
Enqueue ==
    /\ unit.ops > 0
    /\ Len(unit.queue) < MaxHeap
    /\ \E m \in Messages, expired \in BOOLEAN :
         unit' = IF should_drop_message(unit, m, expired)
                 THEN [unit EXCEPT !.op = "enqueue_message", !.ret = FALSE, !.ops = @ - 1,
                                   !.message = m, !.before = unit.queue,
                                   !.dropped = @ + 1]
                 ELSE [unit EXCEPT !.op = "enqueue_message", !.ret = TRUE, !.ops = @ - 1,
                                   !.message = m, !.before = unit.queue,
                                   !.queue = QueuePush(@, m)]
    /\ UNCHANGED <<engine, chan>>

\* dequeue_message with a positive timeout: the wait ends at once when the
\* queue is not empty and at the timeout when it is
Dequeue ==
    /\ unit.ops > 0
    /\ unit' = IF unit.queue # << >>
               THEN [unit EXCEPT !.op = "dequeue_message", !.ret = TRUE, !.ops = @ - 1,
                                 !.message = QueueTop(unit.queue), !.before = unit.queue,
                                 !.queue = QueuePop(@)]
               ELSE [unit EXCEPT !.op = "dequeue_message", !.ret = FALSE, !.ops = @ - 1,
                                 !.message = NoMessage, !.before = unit.queue]
    /\ UNCHANGED <<engine, chan>>

InitQueue ==
    /\ Standalone
    /\ unit = NewBufferContext

NextQueue == Enqueue \/ Dequeue

SpecQueue == InitQueue /\ [][NextQueue]_vars

(***************************************************************************)
(* Properties.                                                             *)
(***************************************************************************)
Count(e) == obs.hostEvents[e]

ReconnectsMade == MaxReconnects - env.reconnects

NeverConnected == obs.establishedCount = 0

WireAt(ev) == {i \in DOMAIN obs.wire : obs.wire[i].ev = ev}

Sent(ev) == Cardinality(WireAt(ev))

IsSequenced(m) == m.ev \in {"start", "media", "stop", "playedStream"}

Sequenced == SelectSeq(obs.wire, IsSequenced)

\* C1: the sequence numbers of the start, media, stop and playedStream
\* messages, in the order the messages went out on the wire, begin with 0
\* and are strictly increasing.
C1_SequenceStrictlyIncreasing ==
    /\ Sequenced # << >> => Sequenced[1].sn = 0
    /\ \A i \in 1..(Len(Sequenced) - 1) : Sequenced[i].sn < Sequenced[i + 1].sn

\* C2 as stated: start is sent at most once and only on the first
\* connection, which does not end before start was sent; stop is sent at
\* most once.
C2_StartOnFirstConnected ==
    /\ Sent("start") <= 1
    /\ Sent("stop") <= 1
    /\ \A i \in WireAt("start") : obs.wire[i].conn = 1
    /\ obs.establishedCount >= 2 => Sent("start") = 1

\* C2: start is sent at most once in the life of the session, by the first
\* writable callback that finds it due, on whichever connection that is,
\* and m_firstMsgSent tells whether it was; stop is sent at most once.
C2_StartOnceStopOnce ==
    /\ Sent("start") <= 1
    /\ Sent("stop") <= 1
    /\ ap.alive => (ap.m_firstMsgSent <=> Sent("start") = 1)
    /\ ap.alive => (ap.m_lastMsgSent <=> Sent("stop") = 1)

\* start went out on the second connection of the session, and stop after it
C2_Witness ==
    /\ \E i \in WireAt("start") : obs.wire[i].conn = 2
    /\ Sent("stop") = 1
    /\ ap.alive /\ ap.m_state = "DISCONNECTING"

\* nothing is left for the service thread to do until the far end or the
\* host acts: no cancelled wait, no writable callback asked for, no timer due
ServiceIdle ==
    /\ ~lws.cancelled
    /\ \A id \in WsiIds : ~lws.wsi[id].writable /\ lws.wsi[id].st # "closing"
    /\ lws.sul = {}

\* C3: once more than GRACEFUL_BUDGET_SECONDS have passed since the first
\* graceful-shutdown request of a session and the service thread has nothing
\* left to do, the session has no connection any more.
C3_TornDownByDeadline ==
    /\ obs.gracefulFirstAgo > GRACEFUL_BUDGET_SECONDS
    /\ ServiceIdle
    /\ pvt.alive /\ ap.alive
    =>
        \A id \in WsiIds : lws.wsi[id].st # "open"

\* the socket is being closed by the pipe itself, in the course of a
\* graceful shutdown that no stop command, hangup or deadline cut short
ClosedAfterDrain(id) ==
    /\ lws.wsi[id].st = "closing"
    /\ ap.alive /\ ap.m_gracefulShutdown /\ ap.m_wsi = id
    /\ pvt.alive /\ ~pvt.channel_closing
    /\ ~obs.closedByDeadline

\* C4: in a graceful shutdown the pipe sends stop only when its ring
\* buffers are empty, sends no media message after stop, and closes the
\* connection only after stop: every frame buffered at the request goes
\* out as media before stop, and stop before the close.
C4_DrainThenStopThenClose ==
    /\ \A i \in WireAt("stop") : \A j \in WireAt("media") : j < i
    /\ ap.alive /\ Sent("stop") = 1 => allBuffersAreEmpty(ap)
    /\ \A id \in WsiIds : ClosedAfterDrain(id) =>
          /\ Sent("stop") = 1
          /\ ap.m_audio_buffer.transmitted = ap.m_audio_buffer.generated
          /\ ap.m_ob_audio_buffer.transmitted = ap.m_ob_audio_buffer.generated

\* all frames of the call were still buffered when graceful shutdown was
\* requested; they went out as media, then stop, and the socket is closing
C4_Witness ==
    /\ \E id \in WsiIds : ClosedAfterDrain(id)
    /\ Cardinality({i \in WireAt("media") : obs.wire[i].graceful}) = MaxFrames
    /\ obs.wire[Len(obs.wire)].ev = "stop"

\* C5: while no connection attempt of the session has succeeded, it makes
\* no more than 3 attempts, each at least RECONNECTION_DELAY_SECONDS after
\* the one before; connection_failed is published once, after the third
\* attempt, and cleanup is entered with the reason "Connection error".
C5_ThreeAttemptsThenFailed ==
    NeverConnected =>
        /\ obs.attemptsInARow <= MAX_CONNECTION_ATTEMPTS
        /\ obs.spaced
        /\ Count("connection_failed") <= 1
        /\ Count("connection_failed") = 1 =>
              /\ obs.attemptsInARow = MAX_CONNECTION_ATTEMPTS
              /\ obs.cleanupReason = TERMINATION_REASON_CONNECTION_ERROR

C8_NoEventAfterCleanup == ~obs.eventAfterCleanup

\* C9: once the cleanup of the session has been entered, neither its
\* heartbeat task nor its stream-end timeout task is scheduled any more.
C9_TasksCancelled ==
    obs.cleanupEntered => sched.hb.rt = -1 /\ sched.to.rt = -1

\* cleanup was entered for a session whose two tasks had been started
C9_Witness ==
    /\ obs.cleanupEntered
    /\ obs.timersStarted = 1
    /\ obs.cleanupReason = TERMINATION_REASON_CONNECTION_ERROR

\* C10: for a session started with timeout = 0 the stream-end timeout task
\* never requests graceful shutdown.
C10_NoTimeoutWhenZero ==
    pvt.stream_end_timeout = 0 =>
        pvt.stream_termination_reason # TERMINATION_REASON_STREAM_TIMEOUT

\* C7: connection_established is published at most once and the two tasks
\* are started at most once; a session whose pipe is connected has had
\* exactly one of each, however many times the pipe was connected.
C7_ConnectSuccessOnce ==
    /\ Count("connection_established") <= 1
    /\ obs.timersStarted <= 1
    /\ pvt.alive /\ ap.alive /\ ap.m_state = "CONNECTED" =>
          /\ Count("connection_established") = 1
          /\ obs.timersStarted = 1

\* the pipe of a live session is connected for the second time
C7_Witness ==
    /\ pvt.alive /\ ap.alive /\ ap.m_state = "CONNECTED"
    /\ obs.establishedCount = 2
    /\ Count("connection_established") = 1

\* C11: the session (tech_pvt) is destroyed only when its transport is
\* gone: while a socket of the session is connecting or connected, the
\* session still exists.
C11_NoTransportWithoutSession ==
    ~pvt.alive => \A id \in WsiIds : lws.wsi[id].st \notin {"connecting", "open"}

\* the session was ended by the stop command while its pipe was connected,
\* with no graceful shutdown ever requested: the pipe is on its way to
\* close the socket it still holds
StoppedByCommand ==
    /\ obs.cleanupDone
    /\ obs.cleanupReason = TERMINATION_REASON_API_REQUEST
    /\ obs.gracefulFirstAgo < 0
    /\ ap.alive /\ ap.m_wsi # 0
    /\ lws.wsi[ap.m_wsi].st \in {"open", "closing"}

\* C12 as stated: when the stop command has ended a connected session that
\* had sent start and N media messages and the connection is being closed,
\* one stop message with sequence number N + 1 has gone out.
C12_StopCommandSendsStop ==
    /\ StoppedByCommand
    /\ ap.m_firstMsgSent
    /\ lws.wsi[ap.m_wsi].st = "closing"
    =>
        /\ Sent("stop") = 1
        /\ \A i \in WireAt("stop") : obs.wire[i].sn = Sent("media") + 1

\* C12: the stop message belongs to graceful shutdown.  It is written only
\* after graceful shutdown was requested and carries the number of the
\* messages written before it, which is N + 1 after start and N media
\* messages; a session ended by the stop command alone sends no stop
\* message before its connection is closed.
C12_StopOnlyOnGraceful ==
    /\ \A i \in WireAt("stop") :
          /\ obs.wire[i].graceful
          /\ obs.wire[i].sn = i - 1
          /\ \A j \in 1..(i - 1) : obs.wire[j].ev \in {"start", "media"}
    /\ StoppedByCommand => Sent("stop") = 0

\* the stop command ended a session that had sent start and a media
\* message; its socket is being closed and no stop message has gone out
C12_Witness ==
    /\ StoppedByCommand
    /\ lws.wsi[ap.m_wsi].st = "closing"
    /\ Sent("start") = 1 /\ Sent("media") >= 1
    /\ Sent("stop") = 0

\* C13 as stated: a played event (the playedStream message and the host
\* event) fires for a checkpoint only when all bytes before its position
\* have been played.
C13_NotBeforePosition == obs.playedShort = 0

\* C13: a played event fires for a checkpoint at position p only when
\* stream_input_played + frame - 1 >= p: less than one frame of the audio
\* before the checkpoint is still to be played.
C13_WithinOneFrame == obs.playedShort <= FrameLen - 1

\* a played event has fired with the last byte before its checkpoint not
\* yet played
C13_Witness ==
    /\ obs.played # << >>
    /\ obs.playedShort = FrameLen - 1

\* C14: an accepted checkpoint fires once playback has consumed the audio
\* before it.  While a checkpoint is pending with all bytes before its
\* position played, the write-replace path still has a frame to mix in,
\* with which the checkpoint fires: the checkpoint is never left waiting
\* for audio that the far end has yet to send.
C14_CheckpointFiresOncePlayed ==
    \A i \in DOMAIN pvt.checkpoints :
        pvt.alive /\ pvt.stream_input_played >= pvt.checkpoints[i].position
        => pvt.write_buffer >= FrameLen

PlayedNames == {obs.played[i] : i \in DOMAIN obs.played}

PendingNames == {pvt.checkpoints[i].name : i \in DOMAIN pvt.checkpoints}

WireNames == {obs.wire[i].arg : i \in WireAt("playedStream")}

\* C15: a checkpoint is erased when its played event fires and when the
\* write buffer is cleared.  No checkpoint fires twice, none has more than
\* one playedStream message, a checkpoint that was pending at a media.clear
\* never fires, and a checkpoint that fired or was cleared is not pending.
C15_ErasedOnPlayedOrClear ==
    /\ \A i, j \in DOMAIN obs.played : obs.played[i] = obs.played[j] => i = j
    /\ \A i, j \in WireAt("playedStream") : obs.wire[i].arg = obs.wire[j].arg => i = j
    /\ WireNames \subseteq PlayedNames
    /\ obs.dropped \cap PlayedNames = {}
    /\ PendingNames \cap (PlayedNames \cup obs.dropped) = {}

\* a checkpoint was pending at a media.clear, and audio that arrived after
\* the clear has been played since, far enough for its position
C15_Witness ==
    /\ obs.dropped # {}
    /\ pvt.alive /\ pvt.stream_input_played >= FrameLen
    /\ pvt.checkpoints = << >>

\* the place of a checkpoint in the order of arrival, from its name
ArrivalOf(name) == CHOOSE n \in 1..obs.checkpointsSeen : ToString(n) = name

PlayedStreamOnWire == SelectSeq(obs.wire, LAMBDA m : m.ev = "playedStream")

\* C16: the playedStream messages go out on the wire in the order in which
\* their checkpoints were received, as do the played events of the host.
C16_PlayedInArrivalOrder ==
    /\ \A i, j \in DOMAIN PlayedStreamOnWire :
          i < j => ArrivalOf(PlayedStreamOnWire[i].arg) < ArrivalOf(PlayedStreamOnWire[j].arg)
    /\ \A i, j \in DOMAIN obs.played :
          i < j => ArrivalOf(obs.played[i]) < ArrivalOf(obs.played[j])

\* the playedStream messages of two checkpoints are on the wire
C16_Witness ==
    /\ Len(PlayedStreamOnWire) = 2
    /\ PlayedStreamOnWire[1].arg = "1"
    /\ PlayedStreamOnWire[2].arg = "2"


\* nothing is left that the service thread can do until the far end or the
\* host acts: as ServiceIdle, but a writable callback may be asked for on a
\* socket that takes no data
ServiceBlocked ==
    /\ ~lws.cancelled
    /\ \A id \in WsiIds : /\ lws.wsi[id].writable => ~lws.wsi[id].pollout
                           /\ lws.wsi[id].st # "closing"
    /\ lws.sul = {}

\* C17: once a write to a ring buffer has failed (a connection_timeout event
\* was published for it), the budget of the graceful shutdown it asked for
\* has run out and the service thread has done all it can, the session is
\* torn down, also when the far end has stopped reading: no socket is open
\* and the cleanup has completed.
C17_TornDownAfterWriteFailure ==
    /\ Count("connection_timeout") >= 1
    /\ obs.gracefulFirstAgo > GRACEFUL_BUDGET_SECONDS
    /\ ServiceBlocked
    =>
        /\ \A id \in WsiIds : lws.wsi[id].st # "open"
        /\ obs.cleanupDone

\* a fill of n chunks is past the k-th milestone: above three tenths and six
\* tenths of the capacity, at or above nine tenths
PastMilestone(n, k) ==
    IF k = 3 THEN 10 * n >= 9 * BufCap ELSE 10 * n > 3 * k * BufCap

FirstPast(k) == CHOOSE n \in 0..BufCap :
                    PastMilestone(n, k) /\ \A m \in 0..(n - 1) : ~PastMilestone(m, k)

\* C18 as stated: as soon as the fill of the ring is at least 30 %, 60 % or
\* 90 % of its capacity, the connection_degraded event of that milestone
\* has been emitted.
C18_EventAtMilestone ==
    ap.alive =>
        \A k \in 1..3 :
            10 * ap.m_audio_buffer.inuse >= 3 * k * BufCap => Len(obs.degradedAt) >= k

\* C18, amended: the ring emits at most three connection_degraded events,
\* one per milestone and in order; the k-th is emitted by the first write
\* that leaves the fill above 30 % (k = 1) or 60 % (k = 2) of the capacity,
\* or at 90 % or more (k = 3), and always by a write that succeeded.
C18_EventPastMilestone ==
    /\ Len(obs.degradedAt) <= 3
    /\ \A k \in DOMAIN obs.degradedAt : obs.degradedAt[k] = FirstPast(k)
    /\ ~obs.degradedUnwritten
    /\ ap.alive =>
          /\ ap.m_audio_buffer.notif = Len(obs.degradedAt) + 1
          /\ \A k \in 1..3 :
                PastMilestone(ap.m_audio_buffer.inuse, k) => Len(obs.degradedAt) >= k

\* a ring filled to its capacity, a write to it failed, and all three
\* events were emitted on the way
C18_Witness ==
    /\ ap.alive
    /\ ap.m_audio_buffer.inuse = BufCap
    /\ Len(obs.degradedAt) = 3
    /\ Count("connection_timeout") = 1

IncorrectQueued ==
    IF ap.alive
    THEN Cardinality({i \in DOMAIN ap.m_events : ap.m_events[i].ev = "incorrectPayload"})
    ELSE 0

Mulaw(rate) == [contentType |-> "audio/x-mulaw", sampleRate |-> rate]

StartsDone == {t \in CmdIds : chan.cmd[t].pc = "ok"}

\* C21: of the start commands for one stream-id on one call at most one
\* succeeds and media bugs of at most one session are attached, however the
\* commands are timed.
C21_OneSessionPerStreamId ==
    /\ Cardinality(StartsDone) <= 1
    /\ Cardinality({b.owner : b \in chan.bugs}) <= 1

ValidStart(c) ==
    /\ c.url \in {"wss://h/p", "ws://h/p"}
    /\ c.track \in {"inbound", "outbound", "both"}
    /\ c.rate \in {"8k", "16k"}
       \/ (SamplingOf(c.rate) > 0 /\ SamplingOf(c.rate) % 8000 = 0)

\* C22: a start command with an invalid URL scheme, an invalid track or a
\* rate that is not a positive multiple of 8000 is refused: no session and
\* no media bug is made for it, and it does not succeed.
C22_InvalidStartRefused ==
    \A t \in CmdIds :
        \/ t \in chan.sessions
        \/ \E b \in chan.bugs : b.owner = t
        \/ chan.cmd[t].pc = "ok"
        => ValidStart(chan.cmd[t])

IsControl(m) == m.ev \notin {"start", "media", "stop"}

\* C23: a control message written while a frame was waiting in a ring
\* buffer is followed on the wire by a media message, not by another control
\* message: one control message per writable event, then audio.
C23_OneControlThenAudio ==
    \A i \in DOMAIN obs.wire :
        IsControl(obs.wire[i]) /\ obs.wire[i].buffered /\ i + 1 \in DOMAIN obs.wire
            => obs.wire[i + 1].ev = "media"

\* C24: every media payload decodes to 320 x (wire rate / 8000) bytes for
\* PCM16 and to 160 x (wire rate / 8000) bytes for mu-law, at every wire
\* rate and with or without resampling.
C24_PayloadIsOneChunk ==
    unit.kind = "sizing" =>
        \A t \in unit.payloads :
            base64_decode(t) = (IF unit.codec = "ULAW" THEN 160 ELSE 320)
                                   * (unit.sampling \div 8000)

\* a mu-law payload at 16000 Hz was sent for a call that is resampled
C24_Witness ==
    /\ unit.kind = "sizing"
    /\ unit.codec = "ULAW" /\ unit.sampling = 16000 /\ unit.rate = 8000
    /\ unit.payloads # {}

\* the sum of two samples held to the range lo..hi
Clamp(n, lo, hi) == IF n > hi THEN hi ELSE IF n < lo THEN lo ELSE n

\* C25 as stated: a mixed sample is the sum of the two samples saturated at
\* +32767 and -32767.
C25_SaturatesAt32767 ==
    (unit.kind = "mixer" /\ unit.mixed) =>
        unit.out = Clamp(unit.fp + unit.data, -32767, 32767)

\* C25 as the code has it: a mixed sample is the sum of the two samples
\* saturated at +32767 and -32768, the range of a 16-bit sample; it never
\* wraps around.
C25_SaturatesAtInt16Range ==
    (unit.kind = "mixer" /\ unit.mixed) =>
        unit.out = Clamp(unit.fp + unit.data, -32768, 32767)

\* two samples whose sum is below the range of a 16-bit sample have been
\* mixed, in the second turn of the loop
C25_Witness ==
    /\ unit.kind = "mixer" /\ unit.mixed
    /\ unit.fp + unit.data < -32768
    /\ unit.left = 0

\* a is to be delivered no later than b: a higher priority, or the same
\* priority and a time stamp that is not later
NotAfter(a, b) ==
    \/ a.priority < b.priority
    \/ a.priority = b.priority /\ a.timestamp <= b.timestamp

\* C26: a dequeue_message with a positive timeout on a stream buffer that
\* holds messages returns true and yields the pending message of the highest
\* priority and, within that priority, of the earliest time stamp; the
\* message is then no longer pending.
C26_DequeueYieldsFirst ==
    (unit.kind = "abuf" /\ unit.op = "dequeue_message" /\ unit.before # << >>) =>
        /\ unit.ret
        /\ \A i \in DOMAIN unit.before : NotAfter(unit.message, unit.before[i])
        /\ \E i \in DOMAIN unit.before : unit.message = unit.before[i]
        /\ Len(unit.queue) = Len(unit.before) - 1

\* a dequeue took a message that was enqueued after two others which it
\* precedes, one by priority and one by time stamp
C26_Witness ==
    /\ unit.kind = "abuf" /\ unit.op = "dequeue_message" /\ unit.ret
    /\ Len(unit.before) = 3
    /\ \E i, j \in DOMAIN unit.before :
         /\ unit.before[i].priority > unit.message.priority
         /\ unit.before[j].priority = unit.message.priority
         /\ unit.before[j].timestamp > unit.message.timestamp

\* C27: in the wire trace of a session start is the first message and stop,
\* when sent, is the last one: nothing precedes start and nothing follows
\* stop, also when graceful shutdown is asked for before start was sent or
\* while control messages are queued.
C27_StartFirstStopLast ==
    \A i \in DOMAIN obs.wire :
        /\ obs.wire[i].ev = "start" => i = 1
        /\ i = 1 => obs.wire[i].ev = "start"
        /\ obs.wire[i].ev = "stop" => i = Len(obs.wire)

\* a writable callback is on its way to the session's socket: asked for, or
\* about to be asked for by the service thread for a pending write
WakeupPending ==
    \/ \E id \in WsiIds : lws.wsi[id].st = "open" /\ lws.wsi[id].user /\ lws.wsi[id].writable
    \/ lws.pendingWrites

\* C28: while a connected session holds frames in a ring buffer a writable
\* wakeup is pending, so that every frame written is transmitted unless the
\* session ends first - also when the track is both and the other buffer
\* is empty, while capture is paused and after a reconnect.
C28_NoLostWakeup ==
    (Running /\ pvt.alive /\ ap.alive /\ ap.m_state = "CONNECTED"
        /\ ~allBuffersAreEmpty(ap)) => WakeupPending

\* the sockets of the session that are connecting or connected
LiveSockets == {id \in WsiIds : lws.wsi[id].st \in {"connecting", "open"}}

\* C29: at any time at most one socket of a session is connecting or
\* connected, whatever the order of pending connects, connect failures,
\* scheduled reconnects and closes by the far end.
C29_OneLiveSocket == Cardinality(LiveSockets) <= 1

\* C30: under any order of the stop command, the hangup of the call and the
\* callbacks of the transport, the private data of a session is torn down
\* once and no field of it is read or written after destroy_tech_pvt.
C30_NoUseAfterDestroy ==
    /\ ~obs.usedAfterDestroy
    /\ obs.cleanupDone => ~pvt.alive

\* the pending lists of the service thread that hold the session's pipe
ListsHoldingPipe ==
    {l \in {"pendingConnects", "pendingReconnects", "pendingDisconnects", "pendingWrites"} :
        lws[l]}

\* C31: once the AudioPipe of a session has been deleted nothing refers to
\* it: it is in none of the four pending lists, and a session that still
\* exists holds no pointer to it.
C31_NoDanglingPipe ==
    ~ap.alive =>
        /\ ListsHoldingPipe = {}
        /\ pvt.alive => ~pvt.audio_pipe_ptr


\* the messages on the wire that carry a sequence number, in wire order
Numbered ==
    SelectSeq(obs.wire,
              LAMBDA m : m.ev \in {"start", "media", "stop", "playedStream",
                                   "media.cleared", "incorrectPayload"})

\* C32: the sequence numbers of the numbered messages on the wire are
\* 0, 1, 2, ... in wire order, without a gap and without a duplicate.
C32_WireNumbersConsecutive ==
    \A i \in DOMAIN Numbered : Numbered[i].sn = i - 1


(***************************************************************************)
(* Pause and resume.                                                       *)
(***************************************************************************)
MaxPauseFrames == 3

\* a variant of stream_session_pauseresume that leaves the flag alone
stream_session_pauseresume_noflag(w, pause) == w

\* stream_session_pauseresume: with the bug of the stream and its session
\* found, the flag of the session becomes what the command asks for;
\* switch_core_media_bug_flush empties the frames the host holds for the
\* bug, which are no part of the session
stream_session_pauseresume(w, pause) ==
    IF w.pvt.bugPriv = "none" \/ ~w.pvt.bugArgs[w.pvt.bugPriv] THEN w
    ELSE [w EXCEPT !.pvt.audio_paused = pause]

do_pauseresume(w, pause) == stream_session_pauseresume(w, pause)

\* the pause and the resume command; the observer notes which of the two the
\* session took last, and the ring buffers as they were before the pause
PauseCmd(pause) ==
    /\ Running
    /\ pvt.callUp
    /\ pvt.bugPriv # "none"
    /\ LET found == pvt.bugArgs[pvt.bugPriv]
           seen == [World EXCEPT
                      !.obs.pause = IF ~found THEN @
                                    ELSE IF pause THEN "paused"
                                    ELSE IF @ = "never" THEN @ ELSE "resumed",
                      !.obs.atPause = IF found /\ pause /\ obs.pause # "paused"
                                      THEN <<ap.m_audio_buffer, ap.m_ob_audio_buffer>>
                                      ELSE @]
       IN  Commit(do_pauseresume(seen, pause))

\* stream_frame from its entry: the frame of a session that is paused or in
\* graceful shutdown, or whose transport is not connected, is taken from the
\* bug and dropped
CaptureFrame(b) ==
    /\ Running
    /\ pvt.callUp
    /\ b \in pvt.bugs
    /\ env.frames > 0
    /\ pvt.bugArgs[b]
    /\ pvt.alive
    /\ pvt.audio_pipe_ptr
    /\ ap.alive
    /\ Commit(IF pvt.audio_paused \/ pvt.graceful_shutdown \/ ap.m_state # "CONNECTED"
              THEN [World EXCEPT !.env.frames = @ - 1]
              ELSE stream_frame(World, b))

(***************************************************************************)
(* A call with both directions captured whose stream is paused and resumed *)
(* at any time, over a far end that reads at its own pace.                 *)
(***************************************************************************)
InitPause ==
    /\ Started([track |-> "both", bidi |-> FALSE, timeout |-> 0])
    /\ env = [reconnects |-> 0, refusals |-> 0, inbound |-> 0,
              frames |-> MaxPauseFrames, gracefuls |-> MaxGraceful]

NextPause ==
    \/ EventWaitCancelled
    \/ \E id \in WsiIds : Established(id)
    \/ \E id \in WsiIds : Closed(id)
    \/ \E id \in WsiIds : Writeable(id)
    \/ \E b \in BugIds : CaptureFrame(b)
    \/ \E pause \in BOOLEAN : PauseCmd(pause)
    \/ GracefulCmd

SpecPause == InitPause /\ [][NextPause]_vars

RingBuffers == <<ap.m_audio_buffer, ap.m_ob_audio_buffer>>

FramesWritten == ap.m_audio_buffer.generated + ap.m_ob_audio_buffer.generated

C34_DeadlineFromFirstRequest ==
    (ap.alive /\ ap.m_gracefulShutdown /\ obs.gracefulFirstAgo >= 0) =>
        ap.m_gracefulShutdown_ago =
            Older(obs.gracefulFirstAgo, 0, GRACEFUL_BUDGET_SECONDS)

\* C35: after any sequence of writes of the capture path and reads of the
\* transport path a ring buffer holds no more than its maximum, has sent no
\* more chunks than were generated, and its last operation moved one chunk
\* or nothing: a write that succeeded added one chunk, a read that succeeded
\* took one chunk and advanced last_send_time by one step, and an operation
\* that failed left the bytes in use and last_send_time as they were.
C35_WholeChunksWithinCapacity ==
    /\ unit.current_usage_bytes <= unit.max_len
    /\ unit.current_usage_bytes = unit.used
    /\ unit.transmitted <= unit.generated
    /\ unit.op = "write" =>
          /\ unit.last_send_time = unit.before.last_send_time
          /\ unit.current_usage_bytes =
                 unit.before.used + (IF unit.ret THEN unit.chunk_size_bytes ELSE 0)
    /\ unit.op = "read" =>
          /\ unit.last_send_time =
                 unit.before.last_send_time + (IF unit.ret THEN 1 ELSE 0)
          /\ unit.current_usage_bytes =
                 unit.before.used - (IF unit.ret THEN unit.chunk_size_bytes ELSE 0)

\* a ring that was full and refused a write, and from which a chunk has been
\* read since; the last read found it empty
C35_Witness ==
    /\ unit.refused > 0
    /\ unit.transmitted > 0
    /\ unit.op = "read"
    /\ ~unit.ret

\* C36: every chunk the capture path has written into the ring buffer of a
\* mu-law session is mu-law encoded, with and without resampling.
C36_MulawSessionWritesMulaw ==
    unit.codec = "ULAW" => unit.written \subseteq {"ULAW"}

(***************************************************************************)
(* LWS_CALLBACK_CLIENT_RECEIVE: a text message of the far end arrives in   *)
(* pieces and is put together in m_recv_buf. Sizes are counted in units of *)
(* 960000 bytes, half of RECV_BUF_REALLOC_SIZE; MAX_RECV_BUF_SIZE is five  *)
(* times RECV_BUF_REALLOC_SIZE as in the source.                           *)
(***************************************************************************)
RECV_BUF_REALLOC_SIZE == 2

MAX_RECV_BUF_SIZE == 10

MaxFrameSize == 11

MaxMessage == 12

MaxMessages == 2

NewReceiver ==
    [ kind |-> "recv", m_recv_buf |-> FALSE, m_recv_buf_len |-> 0, m_recv_buf_ptr |-> 0,
      left |-> 0, fin |-> FALSE, open |-> FALSE, received |-> 0,
      delivered |-> {}, messages |-> 0 ]

\* the callback for len bytes of a text frame of which remaining bytes are
\* still to come: a first fragment allocates len + remaining; a piece that
\* does not fit makes the buffer RECV_BUF_REALLOC_SIZE longer, or gives it up
\* when that is more than MAX_RECV_BUF_SIZE (realloc of the null pointer
\* allocates); the final fragment hands what is in the buffer to m_callback
ReceiveFragment(u, len, first, remaining, final) ==
    LET u1 == IF first
              THEN [u EXCEPT !.m_recv_buf = TRUE, !.m_recv_buf_len = len + remaining,
                             !.m_recv_buf_ptr = 0]
              ELSE u
        write_offset == u1.m_recv_buf_ptr
        remaining_space == u1.m_recv_buf_len - write_offset
        newlen == u1.m_recv_buf_len + RECV_BUF_REALLOC_SIZE
        u2 == IF remaining_space < len
              THEN IF newlen > MAX_RECV_BUF_SIZE
                   THEN [u1 EXCEPT !.m_recv_buf = FALSE, !.m_recv_buf_ptr = 0,
                                   !.m_recv_buf_len = 0]
                   ELSE [u1 EXCEPT !.m_recv_buf = TRUE, !.m_recv_buf_len = newlen,
                                   !.m_recv_buf_ptr = write_offset]
              ELSE u1
        u3 == IF u2.m_recv_buf THEN [u2 EXCEPT !.m_recv_buf_ptr = @ + len] ELSE u2
    IN  IF u3.m_recv_buf /\ final
        THEN [u3 EXCEPT !.delivered = {u3.m_recv_buf_ptr},
                        !.m_recv_buf = FALSE, !.m_recv_buf_ptr = 0, !.m_recv_buf_len = 0]
        ELSE u3

\* the far end, as the observer sees it: frames of a message, each handed to
\* the callback in pieces of at most RECV_BUF_REALLOC_SIZE; the last frame
\* of a message has the FIN bit
Piece(u, len, size, fin) ==
    LET first == ~u.open
        remaining == size - len
        final == fin /\ remaining = 0
        seen == [u EXCEPT !.left = remaining, !.fin = fin, !.open = ~final,
                          !.received = IF first THEN len ELSE @ + len,
                          !.delivered = IF first THEN {} ELSE @,
                          !.messages = IF first THEN @ + 1 ELSE @]
    IN  ReceiveFragment(seen, len, first, remaining, final)

\* the first piece of a frame
RecvFrame ==
    /\ unit.left = 0
    /\ unit.open \/ unit.messages < MaxMessages
    /\ \E len \in 1..RECV_BUF_REALLOC_SIZE, size \in 1..MaxFrameSize, fin \in BOOLEAN :
         /\ len <= size
         /\ (IF unit.open THEN unit.received ELSE 0) + size <= MaxMessage
         /\ unit' = Piece(unit, len, size, fin)
    /\ UNCHANGED <<engine, chan>>

\* a further piece of the frame
RecvMore ==
    /\ unit.left > 0
    /\ \E len \in 1..RECV_BUF_REALLOC_SIZE :
         /\ len <= unit.left
         /\ unit' = Piece(unit, len, unit.left, unit.fin)
    /\ UNCHANGED <<engine, chan>>

InitRecv ==
    /\ Standalone
    /\ unit = NewReceiver

NextRecv == RecvFrame \/ RecvMore

SpecRecv == InitRecv /\ [][NextRecv]_vars

\* C37: nothing of a message is delivered before its final fragment; when
\* the final fragment has been taken, the message has been delivered in full
\* or not at all: in full when it is so short that the buffer is never asked
\* to grow beyond MAX_RECV_BUF_SIZE, and not at all when it is longer than
\* MAX_RECV_BUF_SIZE.
C37_WholeMessageOrNothing ==
    /\ unit.open => unit.delivered = {}
    /\ (~unit.open /\ unit.messages > 0) =>
          /\ unit.delivered \subseteq {unit.received}
          /\ unit.received + RECV_BUF_REALLOC_SIZE <= MAX_RECV_BUF_SIZE
                 => unit.delivered = {unit.received}
          /\ unit.received > MAX_RECV_BUF_SIZE => unit.delivered = {}

(***************************************************************************)
(* The service threads: one lws context each, and the pending lists which  *)
(* all of them share. Two sessions connect, write and close.               *)
(***************************************************************************)
\* the default of MOD_AUDIO_STREAM_SERVICE_THREADS
nServiceThreads == 2

MaxPipes == 2

ContextIds == 0..(nServiceThreads - 1)

PipeIds == 1..MaxPipes

NoContext == -1

\* AudioPipe::initialize and the pipes before AudioPipe::connect; the
\* observer keeps for each pipe the context that addPendingConnect woke for
\* it and whether a thread other than that of its own context acted on it
NewContexts ==
    [ kind |-> "ctx", numContexts |-> nServiceThreads, nchild |-> 0,
      cancelled |-> [c \in ContextIds |-> FALSE],
      pendingConnects |-> {}, pendingDisconnects |-> {}, pendingWrites |-> {},
      pipe |-> [p \in PipeIds |->
                  [m_state |-> "NONE", m_vhd |-> NoContext, woken |-> NoContext,
                   foreign |-> FALSE]] ]

lws_cancel_service(u, c) == [u EXCEPT !.cancelled[c] = TRUE]

\* AudioPipe::connect of a new pipe: addPendingConnect
PipeConnect(p) ==
    /\ unit.pipe[p].m_state = "NONE"
    /\ LET c == unit.nchild % unit.numContexts
           u == [unit EXCEPT !.pipe[p].m_state = "IDLE",
                             !.pipe[p].woken = c,
                             !.pendingConnects = @ \cup {p},
                             !.nchild = (@ + 1) % unit.numContexts]
       IN  unit' = lws_cancel_service(u, c)
    /\ UNCHANGED <<engine, chan>>

\* lws_callback_on_writable for the pipes of a list, called by the thread of
\* context c
AskWritable(u, c, pipes) ==
    [u EXCEPT !.pipe = [p \in PipeIds |->
                          IF p \in pipes
                          THEN [@[p] EXCEPT !.foreign = @ \/ u.pipe[p].m_vhd # c]
                          ELSE @[p]]]

\* LWS_CALLBACK_EVENT_WAIT_CANCELLED on the thread of context c:
\* processPendingConnects with the vhd of c, processPendingDisconnects and
\* processPendingWrites
ContextWaitCancelled(c) ==
    /\ unit.cancelled[c]
    /\ LET connects == {p \in unit.pendingConnects : unit.pipe[p].m_state = "IDLE"}
           u1 == [unit EXCEPT !.cancelled[c] = FALSE,
                              !.pipe = [p \in PipeIds |->
                                          IF p \in connects
                                          THEN [@[p] EXCEPT !.m_state = "CONNECTING",
                                                            !.m_vhd = c]
                                          ELSE @[p]]]
           disconnects == {p \in u1.pendingDisconnects :
                              u1.pipe[p].m_state = "DISCONNECTING"}
           u2 == AskWritable([u1 EXCEPT !.pendingDisconnects = {}], c, disconnects)
           writes == {p \in u2.pendingWrites : u2.pipe[p].m_state = "CONNECTED"}
       IN  unit' = AskWritable([u2 EXCEPT !.pendingWrites = {}], c, writes)
    /\ UNCHANGED <<engine, chan>>

\* LWS_CALLBACK_CLIENT_ESTABLISHED on the thread of the pipe's context
ContextEstablished(p) ==
    /\ unit.pipe[p].m_state = "CONNECTING"
    /\ unit' = [unit EXCEPT !.pipe[p].m_state = "CONNECTED",
                            !.pendingConnects = @ \ {p}]
    /\ UNCHANGED <<engine, chan>>

\* addPendingWrite after a frame was written to the ring of the pipe
PipeWrite(p) ==
    /\ unit.pipe[p].m_state = "CONNECTED"
    /\ unit' = lws_cancel_service([unit EXCEPT !.pendingWrites = @ \cup {p}],
                                  unit.pipe[p].m_vhd)
    /\ UNCHANGED <<engine, chan>>

\* AudioPipe::close: addPendingDisconnect
PipeClose(p) ==
    /\ unit.pipe[p].m_state = "CONNECTED"
    /\ unit' = lws_cancel_service([unit EXCEPT !.pipe[p].m_state = "DISCONNECTING",
                                               !.pendingDisconnects = @ \cup {p}],
                                  unit.pipe[p].m_vhd)
    /\ UNCHANGED <<engine, chan>>

InitContexts ==
    /\ Standalone
    /\ unit = NewContexts

NextContexts ==
    \/ \E p \in PipeIds : PipeConnect(p)
    \/ \E c \in ContextIds : ContextWaitCancelled(c)
    \/ \E p \in PipeIds : ContextEstablished(p)
    \/ \E p \in PipeIds : PipeWrite(p)
    \/ \E p \in PipeIds : PipeClose(p)

SpecContexts == InitContexts /\ [][NextContexts]_vars

\* C38: the context of a pipe is the one that was woken for it, in turn,
\* when it connected, and no thread but that of its context has asked for a
\* writable callback or a disconnect of it.
C38_OneContextPerSession ==
    \A p \in PipeIds :
        /\ unit.pipe[p].m_vhd # NoContext => unit.pipe[p].m_vhd = unit.pipe[p].woken
        /\ ~unit.pipe[p].foreign

\* C39: a start command that has returned failure has left nothing on the
\* channel: no session with its transport and no media bug is its own.
C39_FailedStartLeavesNothing ==
    \A t \in CmdIds :
        chan.cmd[t].pc = "err" =>
            /\ t \notin chan.sessions
            /\ \A b \in chan.bugs : b.owner # t

(***************************************************************************)
(* The locks of the AdaptiveBufferManager: threads that call               *)
(* enqueue_message and dequeue_message on the buffers of two streams. The  *)
(* context_mutex of a buffer is taken and given back within one step; it   *)
(* is free whenever a thread waits on data_available.                      *)
(***************************************************************************)
MaxThreads == 2

MaxStreams == 2

MaxWaiting == 2

ThreadIds == 1..MaxThreads

StreamIds == 1..MaxStreams

\* the timeouts a dequeue_message is called with, in milliseconds
Timeouts == {0, 100}

IdleThread == [pc |-> "idle", op |-> "", stream |-> 0, timeout |-> 0, ret |-> FALSE]

\* the manager with a buffer created for each stream; buffers_mutex is 0
\* when free and else the thread that holds it
NewManager ==
    [ kind |-> "locks", buffers_mutex |-> 0,
      message_queue |-> [s \in StreamIds |-> 0],
      thread |-> [t \in ThreadIds |-> IdleThread] ]

\* a thread calls enqueue_message or dequeue_message
CallManager(t) ==
    /\ unit.thread[t].pc = "idle"
    /\ \E op \in {"enqueue_message", "dequeue_message"}, s \in StreamIds,
          timeout \in Timeouts :
         /\ op = "enqueue_message" => timeout = 0 /\ unit.message_queue[s] < MaxWaiting
         /\ unit' = [unit EXCEPT !.thread[t] =
                         [pc |-> "buffers_mutex", op |-> op, stream |-> s,
                          timeout |-> timeout, ret |-> FALSE]]
    /\ UNCHANGED <<engine, chan>>

\* "std::lock_guard<std::mutex> lock(buffers_mutex_)", the first statement
\* of both functions
LockBuffersMutex(t) ==
    /\ unit.thread[t].pc = "buffers_mutex"
    /\ unit.buffers_mutex = 0
    /\ unit' = [unit EXCEPT !.buffers_mutex = t, !.thread[t].pc = "context_mutex"]
    /\ UNCHANGED <<engine, chan>>

\* enqueue_message with buffers_mutex_ held: push, notify_one, return true
EnqueueLocked(t) ==
    /\ unit.thread[t].pc = "context_mutex"
    /\ unit.thread[t].op = "enqueue_message"
    /\ unit' = [unit EXCEPT !.message_queue[unit.thread[t].stream] = @ + 1,
                            !.buffers_mutex = 0,
                            !.thread[t].pc = "idle", !.thread[t].ret = TRUE]
    /\ UNCHANGED <<engine, chan>>

\* dequeue_message with buffers_mutex_ held: the message at the top, or the
\* wait on data_available, which gives back context_mutex only
DequeueLocked(t) ==
    /\ unit.thread[t].pc = "context_mutex"
    /\ unit.thread[t].op = "dequeue_message"
    /\ unit' = IF unit.message_queue[unit.thread[t].stream] > 0
               THEN [unit EXCEPT !.message_queue[unit.thread[t].stream] = @ - 1,
                                 !.buffers_mutex = 0,
                                 !.thread[t].pc = "idle", !.thread[t].ret = TRUE]
               ELSE [unit EXCEPT !.thread[t].pc = "data_available"]
    /\ UNCHANGED <<engine, chan>>

\* the wait returns: a message was queued, or wait_for has timed out; wait,
\* which is called for a timeout of 0, has no timeout
WaitReturns(t) ==
    /\ unit.thread[t].pc = "data_available"
    /\ unit.message_queue[unit.thread[t].stream] > 0 \/ unit.thread[t].timeout > 0
    /\ unit' = IF unit.message_queue[unit.thread[t].stream] > 0
               THEN [unit EXCEPT !.message_queue[unit.thread[t].stream] = @ - 1,
                                 !.buffers_mutex = 0,
                                 !.thread[t].pc = "idle", !.thread[t].ret = TRUE]
               ELSE [unit EXCEPT !.buffers_mutex = 0,
                                 !.thread[t].pc = "idle", !.thread[t].ret = FALSE]
    /\ UNCHANGED <<engine, chan>>

InitLocks ==
    /\ Standalone
    /\ unit = NewManager

NextLocks ==
    \/ \E t \in ThreadIds : CallManager(t)
    \/ \E t \in ThreadIds : LockBuffersMutex(t)
    \/ \E t \in ThreadIds : EnqueueLocked(t)
    \/ \E t \in ThreadIds : DequeueLocked(t)
    \/ \E t \in ThreadIds : WaitReturns(t)

SpecLocks == InitLocks /\ [][NextLocks]_vars

\* C40: while a thread waits in dequeue_message for a message, a thread that
\* has called enqueue_message, for the same or for another stream, can go
\* on: the lock it needs first is free.
C40_WaitingDequeueBlocksNoEnqueue ==
    \A t, e \in ThreadIds :
        (/\ unit.thread[t].pc = "data_available"
         /\ unit.thread[e].op = "enqueue_message"
         /\ unit.thread[e].pc = "buffers_mutex")
            => unit.buffers_mutex = 0


====
